---- MODULE Spec2Model ----
(***************************************************************************)
(* A model of the SkyPortal flight tracker: the aircraft state             *)
(* constructors (skyportal/aircraftlib.py), the API handlers               *)
(* (skyportal/networklib.py, skyportal/opensky.py, skyportal/adsblol.py)   *)
(* the refresh loop of code.py, the redraw and the hit test of the UI      *)
(* (skyportal/displaylib.py), the bounding box of the map                  *)
(* (skyportal/maplib.py) and the proxy (adsblol-proxy/adsblol_proxy.py);   *)
(* the pixel projection and the base map (skyportal/maplib.py), the touch  *)
(* handlers (displaylib.py, pyportal_compat.py, feather_compat.py), the    *)
(* screenshot handler and the info box (displaylib.py).                    *)
(*                                                                         *)
(* Numbers.  Python floats are held in fixed point: a float f is the       *)
(* integer f * Scale.  JSON integers in source units (feet, knots,         *)
(* milliseconds, seconds) are held as they are.                            *)
(* Optional values.  None is the empty tuple, a present value v is <<v>>.  *)
(* Strings that the code edits (callsigns) are tuples of characters;       *)
(* other strings are TLA+ strings.                                         *)
(***************************************************************************)
EXTENDS Integers, Sequences, FiniteSets, TLC

\* ------------------------------------------------------------------ bounds
\* The longest aircraft array of one API response.
MaxRecords == 3

\* ------------------------------------------------------- representation
Scale == 10000

None == <<>>
Some(v) == <<v>>
IsNone(x) == x = <<>>
Val(x) == x[1]

\* int(a / b) of Python for integers a, b with b # 0: truncation toward zero.
TruncDiv(a, b) ==
  LET n == IF a < 0 THEN -a ELSE a
      d == IF b < 0 THEN -b ELSE b
      q == n \div d
  IN IF (a < 0) = (b < 0) THEN q ELSE -q

\* x * 0.3048 (feet to metres) and x * 0.5144 (knots to metres per second),
\* for an integer x, in fixed point.
MulFt(x) == x * 3048
MulKts(x) == x * 5144

\* str.strip() on a tuple of characters.
RECURSIVE LStrip(_)
LStrip(s) == IF s # <<>> /\ Head(s) = " " THEN LStrip(Tail(s)) ELSE s
RECURSIVE RStrip(_)
RStrip(s) ==
  IF s # <<>> /\ s[Len(s)] = " " THEN RStrip(SubSeq(s, 1, Len(s) - 1)) ELSE s
Strip(s) == RStrip(LStrip(s))

\* --------------------------------------------------------- wire records
\* An OpenSky state vector is a JSON array, an ADSB.lol aircraft is a JSON
\* object; a keyed record holds exactly the keys the object has.
Arr(t) == [fmt |-> "array", a |-> t]
Keyed(r) == [fmt |-> "keyed", k |-> r]
JStr(s) == [s |-> s]
JNum(n) == [n |-> n]

\* state_vector[i] of Python (indices from 0).
Idx(sv, i) == sv.a[i + 1]
\* state_vector.get(key, None)
Get(sv, key) == IF key \in DOMAIN sv.k THEN Some(sv.k[key]) ELSE None

\* ------------------------------------------------ skyportal/aircraftlib.py
\* getattr(AircraftCategory, name, 0): the class attributes of
\* AircraftCategory, 0 for any other name.
AircraftCategory(name) ==
  CASE name = "NO_INFO" -> 0
    [] name = "NO_CATEGORY_INFO" -> 1
    [] name = "LIGHT" -> 2
    [] name = "SMALL" -> 3
    [] name = "LARGE" -> 4
    [] name = "HIGH_VORTEX_LARGE" -> 5
    [] name = "HEAVY" -> 6
    [] name = "HIGH_PERFORMANCE" -> 7
    [] name = "ROTORCRAFT" -> 8
    [] name = "GLIDER" -> 9
    [] name = "LIGHTER_THAN_AIR" -> 10
    [] name = "PARACHUTIST" -> 11
    [] name = "ULTRALIGHT" -> 12
    [] name = "RESERVED" -> 13
    [] name = "UAV" -> 14
    [] name = "SPACE" -> 15
    [] name = "SURFACE_EMERGENCY" -> 16
    [] name = "SURFACE_SERVICE" -> 17
    [] name = "POINT_OBSTACLE" -> 18
    [] name = "CLUSTER_OBSTACLE" -> 19
    [] name = "LINE_OBSTACLE" -> 20
    [] name = "A0" -> 1
    [] name = "A1" -> 2
    [] name = "A2" -> 3
    [] name = "A3" -> 4
    [] name = "A4" -> 5
    [] name = "A5" -> 6
    [] name = "A6" -> 7
    [] name = "A7" -> 8
    [] name = "B0" -> 1
    [] name = "B1" -> 9
    [] name = "B2" -> 10
    [] name = "B3" -> 11
    [] name = "B4" -> 12
    [] name = "B5" -> 13
    [] name = "B6" -> 14
    [] name = "B7" -> 15
    [] name = "C0" -> 1
    [] name = "C1" -> 16
    [] name = "C2" -> 17
    [] name = "C3" -> 18
    [] name = "C4" -> 19
    [] name = "C5" -> 20
    [] OTHER -> 0

\* AircraftState.__init__
AircraftState(icao, callsign, lat, lon, track, velocity_mps, on_ground, baro_altitude_m, geo_altitude_m, vertical_rate_mps, aircraft_category) ==
  [icao |-> icao, callsign |-> callsign, lat |-> lat, lon |-> lon,
   track |-> track, velocity_mps |-> velocity_mps, on_ground |-> on_ground,
   baro_altitude_m |-> baro_altitude_m, geo_altitude_m |-> geo_altitude_m,
   vertical_rate_mps |-> vertical_rate_mps,
   aircraft_category |-> aircraft_category]

\* is_plottable without the test of the track.
is_plottable_without_track(ap) ==
  IF IsNone(ap.lat) THEN FALSE
  ELSE IF IsNone(ap.lon) THEN FALSE
  ELSE TRUE

\* AircraftState.is_plottable
is_plottable(ap) ==
  IF IsNone(ap.lat) THEN FALSE
  ELSE IF IsNone(ap.lon) THEN FALSE
  ELSE IF IsNone(ap.track) THEN FALSE
  ELSE TRUE

\* The exception AircraftState.from_opensky raises on a record, "none" when
\* it returns: indexing a keyed record with an integer is a KeyError, an
\* index past the end of the array an IndexError.
from_opensky_raises(sv) ==
  IF sv.fmt # "array" THEN "KeyError"
  ELSE IF Len(sv.a) < 18 THEN "IndexError"
  ELSE "none"

\* AircraftState.from_opensky, where it returns.
from_opensky(sv) ==
  LET callsign ==
        IF ~IsNone(Idx(sv, 1))
        THEN LET stripped == Strip(Val(Idx(sv, 1)))
             IN IF stripped = <<>> THEN None ELSE Some(stripped)
        ELSE None
  IN AircraftState(Idx(sv, 0), callsign, Idx(sv, 6), Idx(sv, 5),
                   Idx(sv, 10), Idx(sv, 9), Idx(sv, 8), Idx(sv, 7),
                   Idx(sv, 13), Idx(sv, 11), Idx(sv, 17))

\* The keys AircraftState.from_adsblol reads with state_vector[key].
AdsblolRequired == {"alt_baro", "hex", "lat", "lon", "gs"}

\* The exception AircraftState.from_adsblol raises on a record, "none" when
\* it returns: indexing an array with a string is a TypeError, a missing
\* required key a KeyError.
from_adsblol_raises(sv) ==
  IF sv.fmt # "keyed" THEN "TypeError"
  ELSE IF ~(AdsblolRequired \subseteq DOMAIN sv.k) THEN "KeyError"
  ELSE "none"

\* AircraftState.from_adsblol, where it returns.  The walrus binds baro_alt
\* to the comparison itself, so the airborne branch scales False (0).
from_adsblol(sv) ==
  LET is_ground == sv.k.alt_baro = JStr("ground")
      baro_alt == IF is_ground THEN None ELSE Some(MulFt(0))
      on_ground == is_ground
      callsign == IF IsNone(Get(sv, "flight")) THEN Get(sv, "r")
                  ELSE Get(sv, "flight")
      track == IF IsNone(Get(sv, "track")) THEN Get(sv, "true_heading")
               ELSE Get(sv, "track")
      alt_geo == IF ~IsNone(Get(sv, "alt_geo"))
                 THEN Some(MulFt(Val(Get(sv, "alt_geo")))) ELSE None
      baro_rate == IF ~IsNone(Get(sv, "baro_rate"))
                   THEN Some(MulFt(Val(Get(sv, "baro_rate")))) ELSE None
      category == IF IsNone(Get(sv, "category")) THEN "NO_INFO"
                  ELSE Val(Get(sv, "category"))
  IN AircraftState(sv.k.hex, callsign, Some(sv.k.lat), Some(sv.k.lon), track,
                   Some(MulKts(sv.k.gs)), on_ground, baro_alt, alt_geo,
                   baro_rate, AircraftCategory(category))

\* ------------------------------------------------------ upstream inputs
\* An OpenSky state vector (the 18 fields of the extended schema).
OSVector(icao, callsign, lon, lat, baro, on_ground, velocity, track, vrate, geo, category) ==
  Arr(<<icao, callsign, "United States", 100, 100, lon, lat, baro, on_ground,
        velocity, track, vrate, None, geo, None, FALSE, 0, category>>)

\* Airborne, complete, callsign padded with blanks.
OSAirborne ==
  OSVector("a1b2c3", Some(<<"U", "A", "L", "1", " ", " ">>), Some(-711700),
           Some(424100), Some(109728000), FALSE, Some(2315000), Some(900000),
           Some(0), Some(111252000), 4)
\* Airborne rotorcraft, complete.
OSHeli ==
  OSVector("a7e8f9", Some(<<"N", "9", "1", "1">>), Some(-709000),
           Some(425000), Some(3048000), FALSE, Some(514400), Some(2750000),
           Some(-25400), Some(3352800), 8)
\* On the ground, with a position and a track, blank callsign.
OSGround ==
  OSVector("a4d5e6", Some(<<" ", " ">>), Some(-714000), Some(423000), None,
           TRUE, Some(51000), Some(1800000), None, None, 0)
\* Airborne, no position and no track.
OSNoPosition ==
  OSVector("c0ffee", None, None, None, Some(50000000), FALSE, None, None,
           None, None, 1)
\* Malformed: a vector cut short (17 fields, no category).
OSShort ==
  Arr(SubSeq(OSVector("bad001", None, Some(-711000), Some(424200),
                      Some(6096000), FALSE, Some(1000000), Some(450000),
                      None, Some(6200000), 0).a, 1, 17))

OpenSkyRecords == {OSAirborne, OSHeli, OSGround, OSNoPosition, OSShort}

\* ADSB.lol aircraft objects.  lat, lon, track and true_heading are floats;
\* alt_baro, alt_geo and baro_rate are feet, gs is knots.
\* Airborne, complete.
ADSBAirborne ==
  Keyed([hex |-> "a1b2c3", flight |-> <<"U", "A", "L", "1", " ", " ">>,
         r |-> <<"N", "1", "2", "3">>, alt_baro |-> JNum(36000),
         alt_geo |-> 36500, lat |-> 424100, lon |-> -711700,
         track |-> 900000, gs |-> 450, baro_rate |-> 0, category |-> "A3"])
\* Airborne rotorcraft, no flight key (registration only).
ADSBHeli ==
  Keyed([hex |-> "a7e8f9", r |-> <<"N", "9", "1", "1">>,
         alt_baro |-> JNum(1000), alt_geo |-> 1100, lat |-> 425000,
         lon |-> -709000, track |-> 2750000, gs |-> 100, baro_rate |-> -64,
         category |-> "A7"])
\* On the ground: the sentinel altitude, a heading instead of a track.
ADSBGround ==
  Keyed([hex |-> "a4d5e6", flight |-> <<" ", " ">>,
         alt_baro |-> JStr("ground"), lat |-> 423000, lon |-> -714000,
         true_heading |-> 1800000, gs |-> 10])
\* Airborne, neither track nor heading, category the feed does not define.
ADSBNoTrack ==
  Keyed([hex |-> "c0ffee", alt_baro |-> JNum(5000), lat |-> 424500,
         lon |-> -712000, gs |-> 120, category |-> "D7"])
\* Malformed: no ground speed.
ADSBNoSpeed ==
  Keyed([hex |-> "bad001", alt_baro |-> JNum(2000), lat |-> 424200,
         lon |-> -711000, track |-> 450000])

AdsbLolRecords ==
  {ADSBAirborne, ADSBHeli, ADSBGround, ADSBNoTrack, ADSBNoSpeed}

\* The aircraft arrays of a response: at most MaxRecords records, each
\* aircraft (a unique ICAO address) at most once.
RecordLists(S) ==
  UNION {{l \in [1..n -> S] : \A i, j \in 1..n : i # j => l[i] # l[j]} :
         n \in 0..MaxRecords}

\* What one requests.get() can come to: the request times out, runs out of
\* retries, or answers with a status code and a JSON body (null, or the
\* object with the time and the aircraft array).
Timeout == [kind |-> "timeout"]
OutOfRetries == [kind |-> "out_of_retries"]
BadStatus(code) == [kind |-> "response", status_code |-> code,
                    json |-> [null |-> TRUE]]
NullPayload == [kind |-> "response", status_code |-> 200,
                json |-> [null |-> TRUE]]
Payload(time, records) ==
  [kind |-> "response", status_code |-> 200,
   json |-> [null |-> FALSE, time |-> time, records |-> records]]

\* Server times: OpenSky in seconds, ADSB.lol in milliseconds.
OpenSkyTimes == {100, 130}
AdsbLolTimes == {100000, 130500}
BadStatusCodes == {429, 503}

Failures ==
  {Timeout, OutOfRetries, NullPayload} \cup {BadStatus(c) : c \in BadStatusCodes}
OpenSkyFetches ==
  Failures \cup
  {Payload(t, l) : t \in OpenSkyTimes, l \in RecordLists(OpenSkyRecords)}
AdsbLolFetches ==
  Failures \cup
  {Payload(t, l) : t \in AdsbLolTimes, l \in RecordLists(AdsbLolRecords)}

\* ---------------------------------------------------- the API handlers
\* The handler classes: OpenSky and ADSBLol of skyportal/networklib.py,
\* OpenSky of skyportal/opensky.py and AdsbLol of skyportal/adsblol.py.
Handlers ==
  {"networklib.OpenSky", "networklib.ADSBLol", "opensky.OpenSky",
   "adsblol.AdsbLol"}
BaseHandlers == {"networklib.OpenSky", "networklib.ADSBLol"}

\* The wire format of the API a handler queries.
Fetches(h) ==
  IF h \in {"networklib.OpenSky", "opensky.OpenSky"} THEN OpenSkyFetches
  ELSE AdsbLolFetches

\* _query_api, _query_opensky, _query_adsblol: the exception the query
\* raises on a fetch, "none" when it returns the JSON.
query_api_raises(fetch) ==
  IF fetch.kind = "timeout" THEN "TimeoutError"
  ELSE IF fetch.kind = "out_of_retries" THEN "OutOfRetries"
  ELSE IF fetch.status_code # 200 THEN "RuntimeError"
  ELSE IF fetch.json.null THEN "RuntimeError"
  ELSE "none"

\* _api_time_converter that is the identity for every handler.
api_time_converter_identity(h, t) == t * Scale

\* _api_time_converter: the identity for OpenSky (the integer seconds, held
\* as a float), t / 1000 for ADSB.lol.
api_time_converter(h, t) ==
  IF h \in {"networklib.OpenSky", "opensky.OpenSky"} THEN t * Scale
  ELSE TruncDiv(t * Scale, 1000)

\* _aircraft_converter, and the constructor the module-level parsers call.
converter_raises(h, sv) ==
  IF h = "networklib.OpenSky" THEN from_opensky_raises(sv)
  ELSE from_adsblol_raises(sv)
aircraft_converter(h, sv) ==
  IF h = "networklib.OpenSky" THEN from_opensky(sv) ELSE from_adsblol(sv)

\* The test that drops a converted state from the result: on_ground in
\* _parse_api_response, not is_plottable() in _parse_opensky_response and
\* _parse_adsblol_response.
dropped(h, skip, state) ==
  IF h \in BaseHandlers THEN skip /\ state.on_ground
  ELSE skip /\ ~is_plottable(state)

\* The loop of the parsers over the aircraft array: the first exception a
\* conversion raises ends it.
RECURSIVE parse_raises(_, _)
parse_raises(h, records) ==
  IF records = <<>> THEN "none"
  ELSE IF converter_raises(h, Head(records)) # "none"
       THEN converter_raises(h, Head(records))
       ELSE parse_raises(h, Tail(records))

RECURSIVE parse_states(_, _, _)
parse_states(h, skip, records) ==
  IF records = <<>> THEN <<>>
  ELSE LET state == aircraft_converter(h, Head(records))
       IN IF dropped(h, skip, state)
          THEN parse_states(h, skip, Tail(records))
          ELSE <<state>> \o parse_states(h, skip, Tail(records))

\* _parse_api_response, _parse_opensky_response, _parse_adsblol_response,
\* where they return: (states, api_time).
parse_api_response(h, skip, json) ==
  [states |-> parse_states(h, skip, json.records),
   api_time |-> api_time_converter(h, json.time)]

\* update() with one except clause for every exception of the query: a
\* timeout is reported as APIException.
update_result_one_clause(h, fetch) ==
  LET raised == IF query_api_raises(fetch) # "none"
                THEN query_api_raises(fetch)
                ELSE parse_raises(h, fetch.json.records)
  IN CASE raised = "none" -> "ok"
       [] raised \in {"RuntimeError", "OutOfRetries", "TimeoutError"} ->
            "APIException"
       [] OTHER -> raised

\* What update() comes to on a fetch: "ok" when it returns, else the
\* exception that leaves it.  RuntimeError becomes APIException,
\* OutOfRetries and TimeoutError become APITimeoutError, any other
\* exception passes through.
update_result(h, fetch) ==
  LET raised == IF query_api_raises(fetch) # "none"
                THEN query_api_raises(fetch)
                ELSE parse_raises(h, fetch.json.records)
  IN CASE raised = "none" -> "ok"
       [] raised = "RuntimeError" -> "APIException"
       [] raised \in {"OutOfRetries", "TimeoutError"} -> "APITimeoutError"
       [] OTHER -> raised

\* ------------------------------------------------------------- state
VARIABLES
  handler,        \* the handler class of the API handler object
  skip_ground,    \* skyportal_config.SKIP_GROUND
  aircraft,       \* handler.aircraft
  api_time,       \* handler.api_time
  last_result,    \* how the latest update() ended ("none" before the first)
  last_cause,     \* what the fetch of the latest update() came to
  last_json,      \* the JSON of the latest update() that returned
  last_shape,     \* of the latest fetch's aircraft array: <<length, number
                  \* of malformed records>> (<<0, 0>> without an array)
  ever_retained   \* some update() has returned with a non-empty list

handler_vars ==
  <<handler, skip_ground, aircraft, api_time, last_result, last_cause,
    last_json, last_shape, ever_retained>>

\* The refresh loop of code.py.
VARIABLES
  loop_state,      \* where the main loop is: "Idle" (asleep between two
                   \* cycles), "Fetching" (in the try block), "Updated" or
                   \* "Failed" (the cycle is through, before the sleep),
                   \* "Crashed" (an exception has left the loop)
  AIRCRAFT_GROUP,  \* the icons of the aircraft display group
  time_label,      \* time_label.text: None for no text, else the timestamp
  cycle_cause,     \* what the fetch of the current cycle came to
  cycle_log,       \* the lines the current cycle has printed
  refreshed,       \* some cycle has fetched and parsed a response
  shown            \* the icons and the label as the latest cycle that
                   \* fetched and parsed a response left them

loop_vars ==
  <<loop_state, AIRCRAFT_GROUP, time_label, cycle_cause, cycle_log,
    refreshed, shown>>

\* The SkyPortalUI object of displaylib.py.
VARIABLES
  default_icon,            \* ui.default_icon: None while the attribute is
                           \* unbound, else the icon sheet
  aircraft_positions,      \* ui._aircraft_positions: pixel -> aircraft
  aircraft_display_group,  \* the icons of ui.aircraft_display_group
  draw_result,             \* how the latest draw_aircraft() ended ("none"
                           \* before the first)
  drawn,                   \* the list the latest draw_aircraft() was given
  stale_dropped,           \* the latest draw_aircraft() found an entry in
                           \* the position cache that it did not leave
  closest                  \* the latest _closest_aircraft() call: None
                           \* before the first, else its arguments and what
                           \* it returned

ui_vars ==
  <<default_icon, aircraft_positions, aircraft_display_group, draw_result,
    drawn, stale_dropped, closest>>

\* The constructors of AircraftState and the proxy's simplify_aircraft.
VARIABLES
  built           \* the latest construction: None before the first, else
                  \* the constructor, its record, the exception it raised
                  \* and the state it built

\* maplib.build_bounding_box at startup.
VARIABLES
  box             \* the latest build_bounding_box() call: None before the
                  \* first, else its arguments and the bounds it returned

\* maplib.calculate_pixel_position on pairs of points of one bounding box.
VARIABLES
  projected       \* the latest pair of projections: None before the first,
                  \* else the box, the two points and their pixels

\* The TouchscreenHandler objects of displaylib.py, pyportal_compat.py and
\* feather_compat.py.
VARIABLES
  touch_impl,     \* the module whose TouchscreenHandler this is
  is_pressed,     \* handler._is_pressed
  polls           \* the touch_point polls made so far, oldest first

touch_vars == <<touch_impl, is_pressed, polls>>

\* The ScreenshotHandler object of displaylib.py and its destination.
VARIABLES
  n_screenshots,  \* handler.n_screenshots
  files,          \* the names in the destination that start with
                  \* "screenshot_", as their ranks in sorted order
  last_shot       \* the latest take_screenshot() call: None before the
                  \* first, else the files it found, the ones it removed,
                  \* the name it saved to and how the save ended

shot_vars == <<n_screenshots, files, last_shot>>

\* The base map of the display: set_base_map of code.py and of SkyPortalUI.
VARIABLES
  main_display_group,  \* the groups of the main display group, bottom first
  map_result           \* the set_base_map() call of the startup: None
                       \* before it, else its arguments, what the download
                       \* did, the exception raised and the tile loaded

map_vars == <<main_display_group, map_result>>

\* The AircraftInfoBox of SkyPortalUI and the touches it is given.
VARIABLES
  enable_screenshot,  \* ui._enable_screenshot
  info_hidden,        \* ui.aircraft_info.hidden
  info_aircraft,      \* the aircraft the fields of the box were last set
                      \* from: None before the first
  last_touch          \* the latest process_touch() call: None before the
                      \* first, else its argument, whether the
                      \* screenshot button fired, and the box and the
                      \* position cache it found

info_vars == <<enable_screenshot, info_hidden, info_aircraft, last_touch>>

\* The proxy's simplify_aircraft and the device's from_adsblol on one
\* record of the ADSB.lol feed.
VARIABLES
  normalized      \* the latest record given to both: None before the
                  \* first, else the record and, for each of the two, the
                  \* exception raised and the state built

device_vars ==
  <<projected, touch_vars, shot_vars, map_vars, info_vars, normalized>>

vars == <<handler_vars, loop_vars, ui_vars, built, box, device_vars>>

\* can_draw that tells whether the handler has been updated, not whether
\* it holds aircraft.
can_draw_once_updated == api_time # -1 * Scale

\* APIHandlerBase.can_draw, OpenSky.can_draw, AdsbLol.can_draw
can_draw == Len(aircraft) # 0

\* What a fetch came to, as the handler tells the cases apart.
cause_of(fetch) ==
  IF fetch.kind # "response" THEN fetch.kind
  ELSE IF fetch.status_code # 200 THEN "bad_status"
  ELSE IF fetch.json.null THEN "null_payload"
  ELSE "payload"

\* A record is well formed when it has what the constructor of its own wire
\* format reads: the 18 positions of from_opensky, the required keys of
\* from_adsblol.
well_formed(sv) ==
  IF sv.fmt = "array" THEN from_opensky_raises(sv) = "none"
  ELSE from_adsblol_raises(sv) = "none"

shape_of(fetch) ==
  IF cause_of(fetch) # "payload" THEN <<0, 0>>
  ELSE <<Len(fetch.json.records),
         Cardinality({i \in DOMAIN fetch.json.records :
                        ~well_formed(fetch.json.records[i])})>>

\* __init__ of the handler classes: aircraft = [], api_time = -1.
HandlerInit ==
  /\ handler \in Handlers
  /\ skip_ground \in BOOLEAN
  /\ aircraft = <<>>
  /\ api_time = -1 * Scale
  /\ last_result = "none"
  /\ last_cause = "none"
  /\ last_json = [null |-> TRUE]
  /\ last_shape = <<0, 0>>
  /\ ever_retained = FALSE

\* update() that clears the list before it queries: a failed call leaves
\* the handler empty.
aircraft_after_cleared(h, skip, old, fetch) ==
  IF update_result(h, fetch) = "ok"
  THEN parse_api_response(h, skip, fetch.json).states
  ELSE <<>>

\* update() that extends the list it holds instead of replacing it.
aircraft_after_merged(h, skip, old, fetch) ==
  IF update_result(h, fetch) = "ok"
  THEN old \o parse_api_response(h, skip, fetch.json).states
  ELSE old

\* handler.aircraft and handler.api_time after update() on a fetch: the
\* tuple assignment runs only when the query and the parse have returned.
aircraft_after(h, skip, old, fetch) ==
  IF update_result(h, fetch) = "ok"
  THEN parse_api_response(h, skip, fetch.json).states
  ELSE old
api_time_after(h, skip, old, fetch) ==
  IF update_result(h, fetch) = "ok"
  THEN parse_api_response(h, skip, fetch.json).api_time
  ELSE old

\* update(): one call, to its return or to the exception that leaves it.
Update ==
  \E fetch \in Fetches(handler) :
    /\ aircraft' = aircraft_after(handler, skip_ground, aircraft, fetch)
    /\ api_time' = api_time_after(handler, skip_ground, api_time, fetch)
    /\ last_result' = update_result(handler, fetch)
    /\ last_cause' = cause_of(fetch)
    /\ last_json' = IF update_result(handler, fetch) = "ok" THEN fetch.json
                    ELSE last_json
    /\ last_shape' = shape_of(fetch)
    /\ ever_retained' = (ever_retained \/
                           (update_result(handler, fetch) = "ok" /\
                            Len(aircraft') # 0))
    /\ UNCHANGED <<handler, skip_ground>>
    /\ UNCHANGED <<loop_vars, ui_vars, built, box, device_vars>>

\* ------------------------------------------------------------- code.py
\* board.DISPLAY of the PyPortal.
DisplayWidth == 320
DisplayHeight == 240
\* rotation_resolution_deg of the icon sheets.
RotationResolutionDeg == 30
ROTORCRAFT == 8

\* grid_bounds = build_bounding_box() for the configured map centre
\* (42.41, -71.17) and grid width (15 mi) on the 320 x 240 display:
\* (lat_min, lat_max, lon_min, lon_max).
grid_bounds == <<421944, 426256, -715593, -707807>>

\* math.log(math.tan(math.pi / 4 + math.radians(lat) / 2)) in millionths,
\* for the latitudes of the model.
Mercator(lat) ==
  CASE lat = 420000 -> 809167
    [] lat = 421944 -> 813740
    [] lat = 423000 -> 816230
    [] lat = 424100 -> 818828
    [] lat = 424200 -> 819064
    [] lat = 424462 -> 819684
    [] lat = 424500 -> 819773
    [] lat = 425000 -> 820957
    [] lat = 426256 -> 823933
    [] lat = 427000 -> 825699

\* map_range
map_range(value, in_min, in_max, out_min, out_max) ==
  out_min + TruncDiv((value - in_min) * (out_max - out_min), in_max - in_min)

\* calculate_pixel_position with the output range of y not reversed: the
\* bottom of the box at pixel row 0.
calculate_pixel_position_unflipped(lat, lon, bounds) ==
  <<map_range(lon, bounds[3], bounds[4], 0, DisplayWidth),
    map_range(Mercator(lat), Mercator(bounds[1]), Mercator(bounds[2]), 0,
              DisplayHeight)>>

\* calculate_pixel_position
calculate_pixel_position(lat, lon, bounds) ==
  LET lat_min == bounds[1]
      lat_max == bounds[2]
      lon_min == bounds[3]
      lon_max == bounds[4]
      x == map_range(lon, lon_min, lon_max, 0, DisplayWidth)
      y == map_range(Mercator(lat), Mercator(lat_max), Mercator(lat_min), 0,
                     DisplayHeight)
  IN <<x, y>>

\* query_opensky: the exception it raises on a fetch, "none" when it
\* returns the JSON.
query_opensky_raises(fetch) ==
  IF fetch.kind = "timeout" THEN "TimeoutError"
  ELSE IF fetch.kind = "out_of_retries" THEN "OutOfRetries"
  ELSE IF fetch.status_code # 200 THEN "RuntimeError"
  ELSE IF fetch.json.null THEN "RuntimeError"
  ELSE "none"

\* AircraftState.__init__ of code.py: the exception it raises, and the
\* state it builds.
code_AircraftState_raises(sv) ==
  IF Len(sv.a) < 18 THEN "IndexError" ELSE "none"
code_AircraftState(sv) ==
  [icao |-> Idx(sv, 0), lat |-> Idx(sv, 6), lon |-> Idx(sv, 5),
   track |-> Idx(sv, 10), velocity_mps |-> Idx(sv, 9),
   on_ground |-> Idx(sv, 8), baro_altitude_m |-> Idx(sv, 7),
   geo_altitude_m |-> Idx(sv, 13), vertical_rate_mps |-> Idx(sv, 11),
   aircraft_category |-> Idx(sv, 17)]

\* parse_opensky_response: the first exception of the list comprehension,
\* and the list it builds.
RECURSIVE parse_opensky_raises(_)
parse_opensky_raises(records) ==
  IF records = <<>> THEN "none"
  ELSE IF code_AircraftState_raises(Head(records)) # "none"
       THEN code_AircraftState_raises(Head(records))
       ELSE parse_opensky_raises(Tail(records))
parse_opensky_response(json) ==
  [aircraft |-> [i \in DOMAIN json.records |->
                   code_AircraftState(json.records[i])],
   api_time |-> json.time]

\* redraw_aircraft (skip_ground at its default, True): the icons appended to
\* the emptied group.
RECURSIVE redraw_aircraft(_)
redraw_aircraft(list) ==
  IF list = <<>> THEN <<>>
  ELSE LET ap == Head(list)
           pos == calculate_pixel_position(Val(ap.lat), Val(ap.lon),
                                           grid_bounds)
           sheet == IF ap.aircraft_category = ROTORCRAFT THEN "heli_icons"
                    ELSE "airplane_icons"
           icon == [bitmap |-> sheet,
                    default_tile |->
                      TruncDiv(Val(ap.track), RotationResolutionDeg * Scale),
                    x |-> pos[1], y |-> pos[2]]
       IN IF ~is_plottable(ap) THEN redraw_aircraft(Tail(list))
          ELSE IF ap.on_ground THEN redraw_aircraft(Tail(list))
          ELSE <<icon>> \o redraw_aircraft(Tail(list))

\* The try statement without the clause for OutOfRetries and TimeoutError.
try_fetch_no_timeout_clause(fetch) ==
  LET raised == IF query_opensky_raises(fetch) # "none"
                THEN query_opensky_raises(fetch)
                ELSE parse_opensky_raises(fetch.json.records)
  IN CASE raised = "none" -> "parsed"
       [] raised = "RuntimeError" -> "error"
       [] OTHER -> raised

\* The try statement of the main loop on a fetch: "parsed" when the body
\* runs through, "error" and "timeout" for the two except clauses, else
\* the exception that no clause catches.
try_fetch(fetch) ==
  LET raised == IF query_opensky_raises(fetch) # "none"
                THEN query_opensky_raises(fetch)
                ELSE parse_opensky_raises(fetch.json.records)
  IN CASE raised = "none" -> "parsed"
       [] raised = "RuntimeError" -> "error"
       [] raised \in {"OutOfRetries", "TimeoutError"} -> "timeout"
       [] OTHER -> raised

\* The list the main loop holds after the try statement: the parsed one, or
\* the empty list the cycle began with.
aircraft_of(fetch) ==
  IF try_fetch(fetch) = "parsed"
  THEN parse_opensky_response(fetch.json).aircraft
  ELSE <<>>

\* The state at "Initialization complete".
LoopInit ==
  /\ loop_state = "Idle"
  /\ AIRCRAFT_GROUP = <<>>
  /\ time_label = None
  /\ cycle_cause = "none"
  /\ cycle_log = <<>>
  /\ refreshed = FALSE
  /\ shown = [icons |-> <<>>, label |-> None]

\* The top of a cycle, to the request.
LoopBegin ==
  /\ loop_state = "Idle"
  /\ loop_state' = "Fetching"
  /\ cycle_cause' = "none"
  /\ cycle_log' = <<"Requesting aircraft data from OpenSky">>
  /\ UNCHANGED <<AIRCRAFT_GROUP, time_label, refreshed, shown>>
  /\ UNCHANGED <<handler_vars, ui_vars, built, box, device_vars>>

\* The lines the rest of the cycle prints.
lines_of(fetch) ==
  (CASE try_fetch(fetch) = "parsed" ->
          <<"Parsing OpenSky API response", "Found aircraft">>
     [] try_fetch(fetch) = "error" ->
          <<"Error retrieving flight data from OpenSky">>
     [] try_fetch(fetch) = "timeout" -> <<"Request to OpenSky timed out">>
     [] OTHER -> <<"Traceback">>)
  \o
  (CASE try_fetch(fetch) \notin {"parsed", "error", "timeout"} -> <<>>
     [] aircraft_of(fetch) # <<>> ->
          <<"Updating aircraft locations", "Skipped drawing aircraft">>
     [] OTHER -> <<"No aircraft to draw, skipping redraw">>)

\* The redraw without the test of the list: an empty list clears the icons.
group_after_unguarded(old, fetch) == redraw_aircraft(aircraft_of(fetch))

\* The icons and the label text after the if statement that follows the
\* try statement.
group_after(old, fetch) ==
  IF aircraft_of(fetch) # <<>> THEN redraw_aircraft(aircraft_of(fetch))
  ELSE old
label_after(old, fetch) ==
  IF aircraft_of(fetch) # <<>>
  THEN Some(parse_opensky_response(fetch.json).api_time)
  ELSE old

\* The request, the parse and the redraw of one cycle.
LoopRefresh ==
  /\ loop_state = "Fetching"
  /\ \E fetch \in OpenSkyFetches :
       /\ cycle_cause' = cause_of(fetch)
       /\ cycle_log' = cycle_log \o lines_of(fetch)
       /\ loop_state' = CASE try_fetch(fetch) = "parsed" -> "Updated"
                          [] try_fetch(fetch) \in {"error", "timeout"} ->
                               "Failed"
                          [] OTHER -> "Crashed"
       /\ AIRCRAFT_GROUP' = group_after(AIRCRAFT_GROUP, fetch)
       /\ time_label' = label_after(time_label, fetch)
       /\ refreshed' = (refreshed \/ try_fetch(fetch) = "parsed")
       /\ shown' = IF try_fetch(fetch) = "parsed"
                   THEN [icons |-> AIRCRAFT_GROUP', label |-> time_label']
                   ELSE shown
  /\ UNCHANGED <<handler_vars, ui_vars, built, box, device_vars>>

\* time.sleep(REFRESH_INTERVAL_SECONDS), to the top of the loop.
LoopSleep ==
  /\ loop_state \in {"Updated", "Failed"}
  /\ loop_state' = "Idle"
  /\ cycle_log' = Append(cycle_log, "Sleeping")
  /\ UNCHANGED <<AIRCRAFT_GROUP, time_label, cycle_cause, refreshed, shown>>
  /\ UNCHANGED <<handler_vars, ui_vars, built, box, device_vars>>

\* ------------------------------------------------------- displaylib.py
\* GEO_ALTITUDE_THRESHOLD_M of skyportal_config.py (metres).
GEO_ALTITUDE_THRESHOLD_M == 20 * Scale
\* AircraftIcon.TILE_SIZE
TILE_SIZE == 16
\* The longest list one draw_aircraft() call is given.
MaxDrawn == 2

\* load_aircraft_icons: the default sheet, and custom_icons.get() on the
\* sheets it returns by category.
load_default_icon == "airplane_icons"
custom_icons_get(category, default) ==
  IF category = ROTORCRAFT THEN "heli_icons" ELSE default

\* State vectors for the redraw.  Two aircraft that project to the pixel
\* (100, 100), one to (120, 100), one south of the map at (160, 347).
OSAt100 ==
  OSVector("d00100", Some(<<"D", "A", "L", "7">>), Some(-713159),
           Some(424462), Some(30480000), FALSE, Some(1500000), Some(450000),
           Some(0), Some(31000000), 3)
OSAlso100 ==
  OSVector("d00101", Some(<<"J", "B", "U", "9">>), Some(-713155),
           Some(424462), Some(60960000), FALSE, Some(2000000), Some(2250000),
           Some(0), Some(61000000), 4)
OSAt120 ==
  OSVector("d00120", None, Some(-712672), Some(424462), Some(9144000),
           FALSE, Some(600000), Some(0), Some(0), Some(9300000), 8)
OSFarSouth ==
  OSVector("d00347", None, Some(-711700), Some(420000), Some(91440000),
           FALSE, Some(2300000), Some(1800000), Some(0), Some(92000000), 5)

DrawRecords ==
  {OSAt100, OSAlso100, OSAt120, OSFarSouth, OSGround, OSNoPosition}

\* The lists draw_aircraft() is given: aircraft states as from_opensky
\* builds them, each aircraft at most once.
DrawLists ==
  UNION {{[i \in 1..n |-> from_opensky(l[i])] :
            l \in {m \in [1..n -> DrawRecords] :
                     \A i, j \in 1..n : i # j => m[i] # m[j]}} :
         n \in 0..MaxDrawn}

\* dict[key] = value
Put(d, key, value) ==
  [q \in DOMAIN d \cup {key} |-> IF q = key THEN value ELSE d[q]]

\* The for loop of draw_aircraft over what is left of the list.  ui is what
\* the loop has built so far: the position cache, the icons, the two
\* counters, and the exception that has left the loop ("none" while it
\* runs).  sheet is ui.default_icon: reading it while it is unbound is an
\* AttributeError.
RECURSIVE draw_loop(_, _, _, _, _)
draw_loop(list, skip, threshold, sheet, ui) ==
  IF list = <<>> THEN ui
  ELSE LET ap == Head(list)
           pos == calculate_pixel_position(Val(ap.lat), Val(ap.lon),
                                           grid_bounds)
           icon_to_plot == custom_icons_get(ap.aircraft_category, Val(sheet))
           icon == [bitmap |-> icon_to_plot,
                    default_tile |->
                      TruncDiv(Val(ap.track), RotationResolutionDeg * Scale),
                    x |-> pos[1], y |-> pos[2]]
       IN IF ~is_plottable(ap)
          THEN draw_loop(Tail(list), skip, threshold, sheet,
                         [ui EXCEPT !.n_unplottable = @ + 1])
          ELSE IF skip /\ ap.on_ground
          THEN draw_loop(Tail(list), skip, threshold, sheet,
                         [ui EXCEPT !.n_ground = @ + 1])
          ELSE IF IsNone(ap.geo_altitude_m)
                  \/ Val(ap.geo_altitude_m) < threshold
          THEN draw_loop(Tail(list), skip, threshold, sheet,
                         [ui EXCEPT !.n_ground = @ + 1])
          ELSE IF IsNone(sheet)
          THEN [ui EXCEPT !.raised = "AttributeError"]
          ELSE draw_loop(Tail(list), skip, threshold, sheet,
                         [ui EXCEPT !.positions = Put(@, pos, ap),
                                    !.group = Append(@, icon)])

\* draw_aircraft that keeps the position cache of the redraw before.
draw_aircraft_keeps_index(old, list, skip, threshold, sheet) ==
  draw_loop(list, skip, threshold, sheet,
            [positions |-> old.positions, group |-> <<>>,
             n_unplottable |-> 0, n_ground |-> 0, raised |-> "none"])

\* draw_aircraft that appends the icons and caches no position.
draw_aircraft_no_cache(old, list, skip, threshold, sheet) ==
  [draw_loop(list, skip, threshold, sheet,
             [positions |-> <<>>, group |-> <<>>,
              n_unplottable |-> 0, n_ground |-> 0, raised |-> "none"])
     EXCEPT !.positions = <<>>]

\* draw_aircraft on the position cache and the icons it finds (old): both
\* are emptied, then the loop runs.
draw_aircraft(old, list, skip, threshold, sheet) ==
  draw_loop(list, skip, threshold, sheet,
            [positions |-> <<>>, group |-> <<>>,
             n_unplottable |-> 0, n_ground |-> 0, raised |-> "none"])

\* dist(p, q) squared: the sum under the square root.
dist_sq(p, q) == (p[1] - q[1]) * (p[1] - q[1]) + (p[2] - q[2]) * (p[2] - q[2])

\* _closest_aircraft that takes a distance equal to the threshold for a
\* miss.
closest_aircraft_strict(positions, touch_coord, threshold_px) ==
  IF DOMAIN positions = {} THEN {None}
  ELSE LET nearest ==
             {p \in DOMAIN positions :
                \A q \in DOMAIN positions :
                  dist_sq(p, touch_coord) <= dist_sq(q, touch_coord)}
       IN IF \E p \in nearest :
               dist_sq(p, touch_coord) >= threshold_px * threshold_px
          THEN {None}
          ELSE {Some(positions[p]) : p \in nearest}

\* _closest_aircraft: the values the call can return.  The sort puts a
\* position of the smallest distance first; which one, among several of the
\* same distance, is the order of the dict's items, which CircuitPython
\* does not fix.  The square root is monotonic, so px_dist > threshold_px
\* is compared on the squares.
closest_aircraft(positions, touch_coord, threshold_px) ==
  IF DOMAIN positions = {} THEN {None}
  ELSE LET nearest ==
             {p \in DOMAIN positions :
                \A q \in DOMAIN positions :
                  dist_sq(p, touch_coord) <= dist_sq(q, touch_coord)}
       IN IF \E p \in nearest :
               dist_sq(p, touch_coord) > threshold_px * threshold_px
          THEN {None}
          ELSE {Some(positions[p]) : p \in nearest}

\* The touch points and the thresholds of the model.
TouchPoints == {<<110, 100>>, <<130, 100>>, <<100, 131>>, <<160, 340>>}
Thresholds == {5, 30}

\* SkyPortalUI.__init__ and post_connect_init: an empty position cache and
\* an empty aircraft group.  post_connect_init binds the default sheet to
\* ui.base_icon, so ui.default_icon is bound only where the caller of the
\* UI binds it: icon tells which.
UIInitWith(icon) ==
  /\ default_icon = icon
  /\ aircraft_positions = <<>>
  /\ aircraft_display_group = <<>>
  /\ draw_result = "none"
  /\ drawn = <<>>
  /\ stale_dropped = FALSE
  /\ closest = None
UIInit == UIInitWith(None)

\* One draw_aircraft(aircraft) call, skip_ground and the altitude floor at
\* their defaults, to its return or to the exception that leaves it.
DrawAircraft ==
  /\ draw_result # "AttributeError"
  /\ \E list \in DrawLists :
       LET ui == draw_aircraft([positions |-> aircraft_positions,
                                group |-> aircraft_display_group],
                               list, skip_ground, GEO_ALTITUDE_THRESHOLD_M,
                               default_icon)
       IN /\ aircraft_positions' = ui.positions
          /\ aircraft_display_group' = ui.group
          /\ draw_result' = IF ui.raised = "none" THEN "returned"
                            ELSE ui.raised
          /\ drawn' = list
          /\ stale_dropped' =
               \E q \in DOMAIN aircraft_positions :
                 \/ q \notin DOMAIN ui.positions
                 \/ ui.positions[q] # aircraft_positions[q]
          /\ closest' = None
  /\ UNCHANGED default_icon
  /\ UNCHANGED <<handler_vars, loop_vars, built, box, device_vars>>

\* Aircraft at and around the altitude floor of draw_aircraft: geometric
\* altitude of exactly 20 m, of 19.99 m and missing, and one on the ground
\* that reports 50 m.
OSAtFloor ==
  OSVector("f00020", None, Some(-712672), Some(424462), Some(150000),
           FALSE, Some(400000), Some(900000), Some(0), Some(200000), 2)
OSBelowFloor ==
  OSVector("f00019", None, Some(-711700), Some(424462), Some(150000),
           FALSE, Some(400000), Some(900000), Some(0), Some(199900), 2)
OSNoGeo ==
  OSVector("f000ff", None, Some(-711700), Some(424100), Some(30480000),
           FALSE, Some(1500000), Some(2700000), Some(0), None, 3)
OSGroundHigh ==
  OSVector("f00050", None, Some(-713159), Some(424100), None, TRUE,
           Some(51000), Some(1800000), None, Some(500000), 2)

FloorRecords ==
  {OSAt100, OSAtFloor, OSBelowFloor, OSNoGeo, OSGroundHigh, OSGround,
   OSNoPosition}
FloorLists ==
  UNION {{[i \in 1..n |-> from_opensky(l[i])] :
            l \in {m \in [1..n -> FloorRecords] :
                     \A i, j \in 1..n : i # j => m[i] # m[j]}} :
         n \in 0..MaxDrawn}

\* One draw_aircraft(list) call, skip_ground and the altitude floor at the
\* values of the configuration.
Redraw(list) ==
  /\ draw_result # "AttributeError"
  /\ LET ui == draw_aircraft([positions |-> aircraft_positions,
                              group |-> aircraft_display_group],
                             list, skip_ground, GEO_ALTITUDE_THRESHOLD_M,
                             default_icon)
     IN /\ aircraft_positions' = ui.positions
        /\ aircraft_display_group' = ui.group
        /\ draw_result' = IF ui.raised = "none" THEN "returned"
                          ELSE ui.raised
        /\ drawn' = list
        /\ stale_dropped' =
             \E q \in DOMAIN aircraft_positions :
               \/ q \notin DOMAIN ui.positions
               \/ ui.positions[q] # aircraft_positions[q]
        /\ closest' = None
  /\ UNCHANGED default_icon
  /\ UNCHANGED <<handler_vars, loop_vars, built, box, device_vars>>

\* draw_aircraft on aircraft at and around the altitude floor.
DrawNearFloor == \E list \in FloorLists : Redraw(list)

\* The lists of the redraws between touches: two aircraft 20 pixels apart,
\* in either order, each alone, and none.
InfoRecords == {OSAt100, OSAt120}
InfoLists ==
  UNION {{[i \in 1..n |-> from_opensky(l[i])] :
            l \in {m \in [1..n -> InfoRecords] :
                     \A i, j \in 1..n : i # j => m[i] # m[j]}} :
         n \in 0..Cardinality(InfoRecords)}

\* draw_aircraft between touches.
DrawForTouch == \E list \in InfoLists : Redraw(list)

\* Aircraft on every track that matters to the rotation of the icon: the
\* ends of the range of the track, 0 and 360 degrees, and both sides of a
\* change of tile.
TrackCases ==
  {<<"t00000", 0>>, <<"t02999", 299999>>, <<"t03000", 300000>>,
   <<"t18000", 1800000>>, <<"t35999", 3599999>>, <<"t36000", 3600000>>}
TrackRecords ==
  {OSVector(c[1], None, Some(-713159), Some(424462), Some(30480000), FALSE,
            Some(1500000), Some(c[2]), Some(0), Some(31000000), 3) :
     c \in TrackCases}
TrackLists ==
  UNION {{[i \in 1..n |-> from_opensky(l[i])] :
            l \in {m \in [1..n -> TrackRecords] :
                     \A i, j \in 1..n : i # j => m[i] # m[j]}} :
         n \in 0..2}

\* draw_aircraft on aircraft of every track of the model.
DrawOnTracks == \E list \in TrackLists : Redraw(list)

\* One _closest_aircraft(touch_coord, threshold_px) call.
ClosestAircraft ==
  /\ draw_result # "AttributeError"
  /\ \E touch_coord \in TouchPoints, threshold_px \in Thresholds :
       \E returned \in closest_aircraft(aircraft_positions, touch_coord,
                                        threshold_px) :
         closest' = Some([touch_coord |-> touch_coord,
                          threshold_px |-> threshold_px,
                          returned |-> returned])
  /\ UNCHANGED <<default_icon, aircraft_positions, aircraft_display_group,
                 draw_result, drawn, stale_dropped>>
  /\ UNCHANGED <<handler_vars, loop_vars, built, box, device_vars>>

\* ------------------------------------- adsblol-proxy/adsblol_proxy.py
\* The member names of the proxy's AircraftCategory(IntEnum).
ProxyCategoryNames ==
  {"NO_INFO", "A0", "A1", "A2", "A3", "A4", "A5", "A6", "A7", "B0", "B1",
   "B2", "B3", "B4", "B5", "B6", "B7", "C0", "C1", "C2", "C3", "C4", "C5"}

\* AircraftCategory[name] of the proxy, for a member name.
ProxyAircraftCategory(name) ==
  CASE name = "NO_INFO" -> 0
    [] name = "A0" -> 1
    [] name = "A1" -> 2
    [] name = "A2" -> 3
    [] name = "A3" -> 4
    [] name = "A4" -> 5
    [] name = "A5" -> 6
    [] name = "A6" -> 7
    [] name = "A7" -> 8
    [] name = "B0" -> 1
    [] name = "B1" -> 9
    [] name = "B2" -> 10
    [] name = "B3" -> 11
    [] name = "B4" -> 12
    [] name = "B5" -> 13
    [] name = "B6" -> 14
    [] name = "B7" -> 15
    [] name = "C0" -> 1
    [] name = "C1" -> 16
    [] name = "C2" -> 17
    [] name = "C3" -> 18
    [] name = "C4" -> 19
    [] name = "C5" -> 20

\* The category name simplify_aircraft looks up.
proxy_category_name(sv) ==
  IF IsNone(Get(sv, "category")) THEN "NO_INFO" ELSE Val(Get(sv, "category"))

\* The body of simplify_aircraft's loop on one record: whether it skips the
\* record, the exception it raises ("none" when it appends), and the
\* simplified vector it appends.  baro_altitude_m is alt_baro as it came,
\* in feet; the subscript AircraftCategory[name] is a KeyError for a name
\* that is no member.
simplify_skips(sv) == sv.k.alt_baro = JStr("ground")
simplify_raises(sv) ==
  IF "alt_baro" \notin DOMAIN sv.k THEN "KeyError"
  ELSE IF simplify_skips(sv) THEN "none"
  ELSE IF ~({"hex", "lat", "lon", "gs"} \subseteq DOMAIN sv.k) THEN "KeyError"
  ELSE IF proxy_category_name(sv) \notin ProxyCategoryNames THEN "KeyError"
  ELSE "none"
simplify_vector(sv) ==
  LET first == IF IsNone(Get(sv, "flight")) THEN Get(sv, "r")
               ELSE Get(sv, "flight")
      callsign == IF ~IsNone(first) THEN Some(Strip(Val(first))) ELSE None
      track == IF IsNone(Get(sv, "track")) THEN Get(sv, "true_heading")
               ELSE Get(sv, "track")
      alt_geo == IF ~IsNone(Get(sv, "alt_geom"))
                 THEN Some(MulFt(Val(Get(sv, "alt_geom")))) ELSE None
      baro_rate == IF ~IsNone(Get(sv, "baro_rate"))
                   THEN Some(MulFt(Val(Get(sv, "baro_rate")))) ELSE None
  IN AircraftState(sv.k.hex, callsign, Some(sv.k.lat), Some(sv.k.lon), track,
                   Some(MulKts(sv.k.gs)), FALSE,
                   Some(sv.k.alt_baro.n * Scale), alt_geo, baro_rate,
                   ProxyAircraftCategory(proxy_category_name(sv)))

\* ------------------------------------------------ constructor inputs
\* key: value of a JSON object where the value is present, nothing where
\* it is not.
Opt(key, v) == IF IsNone(v) THEN <<>> ELSE key :> Val(v)

\* Callsigns as the feeds send them: padded, blank, empty, with a leading
\* blank.
PaddedCallsign == <<"U", "A", "L", "1", " ", " ">>
BlankCallsign == <<" ", " ">>
EmptyCallsign == <<>>
LedCallsign == <<" ", "N", "1">>

\* OpenSky state vectors: every callsign, with and without latitude,
\* longitude and track, three categories; and the vector of the plain
\* schema, which ends before the category.
OSInputs ==
  {OSVector("a1b2c3", callsign, lon, lat, Some(109728000), FALSE,
            Some(2315000), track, Some(0), Some(111252000), category) :
     callsign \in {None, Some(PaddedCallsign), Some(BlankCallsign),
                   Some(EmptyCallsign), Some(LedCallsign)},
     lon \in {None, Some(-711700)},
     lat \in {None, Some(424100)},
     track \in {None, Some(0), Some(900000)},
     category \in {0, 4, 20}}
  \cup {OSShort}

\* ADSB.lol aircraft objects: with and without flight, registration,
\* category, track and heading; on the ground, airborne, airborne at 0 ft.
ADSBInputs ==
  {Keyed([hex |-> "a1b2c3", alt_baro |-> alt_baro, alt_geom |-> 36500,
          lat |-> 424100, lon |-> -711700, gs |-> 450, baro_rate |-> 0]
         @@ Opt("flight", flight) @@ Opt("r", r)
         @@ Opt("category", category) @@ Opt("track", track)
         @@ Opt("true_heading", true_heading)) :
     flight \in {None, Some(PaddedCallsign), Some(BlankCallsign)},
     r \in {None, Some(LedCallsign)},
     alt_baro \in {JStr("ground"), JNum(0), JNum(36000)},
     category \in {None, Some("A3"), Some("A7"), Some("D7")},
     track \in {None, Some(900000)},
     true_heading \in {None, Some(1800000)}}

\* One AircraftState.from_opensky(state_vector) call.
FromOpenSky ==
  /\ \E sv \in OSInputs :
       built' = Some([by |-> "from_opensky", record |-> sv,
                      raises |-> from_opensky_raises(sv),
                      skipped |-> FALSE,
                      state |-> IF from_opensky_raises(sv) = "none"
                                THEN Some(from_opensky(sv)) ELSE None])
  /\ UNCHANGED <<handler_vars, loop_vars, ui_vars, box, device_vars>>

\* One AircraftState.from_adsblol(state_vector) call.
FromAdsblol ==
  /\ \E sv \in ADSBInputs :
       built' = Some([by |-> "from_adsblol", record |-> sv,
                      raises |-> from_adsblol_raises(sv),
                      skipped |-> FALSE,
                      state |-> IF from_adsblol_raises(sv) = "none"
                                THEN Some(from_adsblol(sv)) ELSE None])
  /\ UNCHANGED <<handler_vars, loop_vars, ui_vars, box, device_vars>>

\* One pass of simplify_aircraft's loop, on one record of the feed.
SimplifyAircraft ==
  /\ \E sv \in ADSBInputs :
       built' = Some([by |-> "simplify_aircraft", record |-> sv,
                      raises |-> simplify_raises(sv),
                      skipped |-> simplify_skips(sv),
                      state |-> IF simplify_raises(sv) = "none"
                                   /\ ~simplify_skips(sv)
                                THEN Some(simplify_vector(sv)) ELSE None])
  /\ UNCHANGED <<handler_vars, loop_vars, ui_vars, box, device_vars>>

\* ------------------------------------ skyportal/maplib.py: the grid
\* The displays of the two boards (width, height).
Displays == {<<DisplayWidth, DisplayHeight>>, <<480, 320>>}

\* The map centres and the grid widths (miles) of the model.
CenterLats == {0, 424100, 899000}
CenterLons == {-711700, 0, 1799000}
GridWidths == {-15, -1, 0, 1, 15, 30, 60}

\* math.degrees(ang_dist), ang_dist = grid_width_mi * 1.6 / 6378.1, for the
\* widths of the model.
ang_dist_degrees(width) ==
  CASE width = -15 -> -2156
    [] width = -1 -> -144
    [] width = 0 -> 0
    [] width = 1 -> 144
    [] width = 15 -> 2156
    [] width = 30 -> 4312
    [] width = 60 -> 8624

\* math.sin(ang_dist) / math.cos(center_lat_rad) in millionths, for the
\* centres and the widths of the model.
sin_over_cos(lat, width) ==
  CASE lat = 0 /\ width = -15 -> -3763
    [] lat = 0 /\ width = -1 -> -251
    [] lat = 0 /\ width = 0 -> 0
    [] lat = 0 /\ width = 1 -> 251
    [] lat = 0 /\ width = 15 -> 3763
    [] lat = 0 /\ width = 30 -> 7526
    [] lat = 0 /\ width = 60 -> 15051
    [] lat = 424100 /\ width = -15 -> -5096
    [] lat = 424100 /\ width = -1 -> -340
    [] lat = 424100 /\ width = 0 -> 0
    [] lat = 424100 /\ width = 1 -> 340
    [] lat = 424100 /\ width = 15 -> 5096
    [] lat = 424100 /\ width = 30 -> 10193
    [] lat = 424100 /\ width = 60 -> 20385
    [] lat = 899000 /\ width = -15 -> -2155965
    [] lat = 899000 /\ width = -1 -> -143731
    [] lat = 899000 /\ width = 0 -> 0
    [] lat = 899000 /\ width = 1 -> 143731
    [] lat = 899000 /\ width = 15 -> 2155965
    [] lat = 899000 /\ width = 30 -> 4311900
    [] lat = 899000 /\ width = 60 -> 8623556

\* math.degrees(math.asin(x)) of that quotient x, in units of 0.00001
\* degree, where the quotient is within [-1, 1].
asin_degrees(lat, width) ==
  CASE lat = 0 /\ width = -15 -> -21560
    [] lat = 0 /\ width = -1 -> -1437
    [] lat = 0 /\ width = 0 -> 0
    [] lat = 0 /\ width = 1 -> 1437
    [] lat = 0 /\ width = 15 -> 21560
    [] lat = 0 /\ width = 30 -> 43119
    [] lat = 0 /\ width = 60 -> 86239
    [] lat = 424100 /\ width = -15 -> -29200
    [] lat = 424100 /\ width = -1 -> -1947
    [] lat = 424100 /\ width = 0 -> 0
    [] lat = 424100 /\ width = 1 -> 1947
    [] lat = 424100 /\ width = 15 -> 29200
    [] lat = 424100 /\ width = 30 -> 58401
    [] lat = 424100 /\ width = 60 -> 116805
    [] lat = 899000 /\ width = -1 -> -826382
    [] lat = 899000 /\ width = 0 -> 0
    [] lat = 899000 /\ width = 1 -> 826382

\* The exception build_bounding_box raises, "none" when it returns:
\* math.asin raises ValueError outside [-1, 1]; no statement tests
\* grid_width_mi.
build_bounding_box_raises(lat, lon, width, display) ==
  IF sin_over_cos(lat, width) > 1000000 \/ sin_over_cos(lat, width) < -1000000
  THEN "ValueError"
  ELSE "none"

\* build_bounding_box, where it returns: (lat_min, lat_max, lon_min,
\* lon_max), the longitude delta scaled by the display's aspect ratio.
build_bounding_box(lat, lon, width, display) ==
  LET d_lat == ang_dist_degrees(width)
      d_lon == TruncDiv(asin_degrees(lat, width) * display[1],
                        display[2] * 10)
  IN <<lat - d_lat, lat + d_lat, lon - d_lon, lon + d_lon>>

\* One build_bounding_box() call at startup.
BuildBoundingBox ==
  /\ \E lat \in CenterLats, lon \in CenterLons, width \in GridWidths,
        display \in Displays :
       box' = Some([map_center_lat |-> lat, map_center_lon |-> lon,
                    grid_width_mi |-> width, display |-> display,
                    raises |-> build_bounding_box_raises(lat, lon, width,
                                                         display),
                    bounds |->
                      IF build_bounding_box_raises(lat, lon, width,
                                                   display) = "none"
                      THEN Some(build_bounding_box(lat, lon, width, display))
                      ELSE None])
  /\ UNCHANGED <<handler_vars, loop_vars, ui_vars, built, device_vars>>

\* ------------------------------------------------- maplib: projection
\* The bounding boxes of the projections: the one of the configured map and
\* a wider one, as (lat_min, lat_max, lon_min, lon_max).
ProjectBoxes == {grid_bounds, <<420000, 427000, -720000, -700000>>}
ProjectLats == {420000, 421944, 424462, 424500, 426256, 427000}
ProjectLons == {-720000, -715593, -713159, -713155, -707807}

\* The points inside a box, as <<lat, lon>>.
PointsInside(bounds) ==
  {pt \in ProjectLats \X ProjectLons :
     /\ bounds[1] <= pt[1] /\ pt[1] <= bounds[2]
     /\ bounds[3] <= pt[2] /\ pt[2] <= bounds[4]}

\* ---------------------------------------------------- touch handlers
MaxPolls == 4
TouchImpls == {"displaylib", "pyportal_compat", "feather_compat"}

\* What the touchscreen reports when read: an (x, y, pressure) reading
\* while touched, None while not.  The TSC2007's touch gives a reading
\* whether touched or not.
Readings == {<<110, 100, 500>>, <<130, 100, 800>>}
Samples == {None} \cup {Some(r) : r \in Readings}
SecondReads(impl) ==
  IF impl = "feather_compat" THEN {Some(r) : r \in Readings} ELSE Samples

\* touch_point that returns the reading of every poll that finds the
\* screen touched.
touch_point_undebounced(impl, pressed, first, second) ==
  IF IsNone(first)
  THEN [is_pressed |-> FALSE, returned |-> None]
  ELSE [is_pressed |-> TRUE, returned |-> second]

\* The touch_point property of the three handlers: the value of
\* _is_pressed it leaves and the value it returns.  first is what the
\* touchscreen reports at the test of the property's first line, second
\* what it reports at the return statement, which reads it again.
touch_point(impl, pressed, first, second) ==
  IF IsNone(first)
  THEN [is_pressed |-> FALSE, returned |-> None]
  ELSE IF pressed
       THEN [is_pressed |-> TRUE, returned |-> None]
       ELSE [is_pressed |-> TRUE, returned |-> second]

TouchInitWith(impl) ==
  /\ touch_impl = impl
  /\ is_pressed = FALSE
  /\ polls = <<>>

\* One poll of touch_point, with what the touchscreen reports at each of
\* the two reads.
TouchPoll ==
  /\ Len(polls) < MaxPolls
  /\ \E first \in Samples, second \in SecondReads(touch_impl) :
       LET r == touch_point(touch_impl, is_pressed, first, second)
       IN /\ is_pressed' = r.is_pressed
          /\ polls' = Append(polls, [was_pressed |-> is_pressed,
                                     touched |-> ~IsNone(first),
                                     is_pressed |-> r.is_pressed,
                                     returned |-> r.returned])
  /\ UNCHANGED touch_impl
  /\ UNCHANGED <<handler_vars, loop_vars, ui_vars, built, box>>
  /\ UNCHANGED <<projected, shot_vars, map_vars, info_vars, normalized>>

\* ------------------------------------------------- screenshot handler
MaxNames == 4
Names == 1..MaxNames
ScreenshotCounts == {0, 1, 2, 3}
SaveOutcomes == {"saved", "MemoryError", "MemoryError, file created"}

\* found_screenshots[:k] of the sorted list: the k smallest names.
Smallest(found, k) ==
  {f \in found : Cardinality({g \in found : g < f}) < k}

\* _rotate_images that leaves n_screenshots files, not n_screenshots - 1.
rotate_images_keeps_n(found, n) ==
  IF Cardinality(found) > n
  THEN Smallest(found, Cardinality(found) - n)
  ELSE {}

\* _rotate_images: the names it unlinks.
rotate_images(found, n) ==
  IF Cardinality(found) > n - 1
  THEN Smallest(found, Cardinality(found) - n + 1)
  ELSE {}

ShotInitWith(n, found) ==
  /\ n_screenshots = n
  /\ files = found
  /\ last_shot = None

\* take_screenshot, at a clock that gives the name its rank and with each
\* way save_pixels can end.
TakeScreenshot ==
  /\ \E name \in Names, outcome \in SaveOutcomes :
       LET to_delete == rotate_images(files, n_screenshots)
           written == IF outcome = "MemoryError" THEN {} ELSE {name}
       IN /\ files' = (files \ to_delete) \cup written
          /\ last_shot' = Some([found |-> files, deleted |-> to_delete,
                                filename |-> name, outcome |-> outcome])
  /\ UNCHANGED n_screenshots
  /\ UNCHANGED <<handler_vars, loop_vars, ui_vars, built, box>>
  /\ UNCHANGED <<projected, touch_vars, map_vars, info_vars, normalized>>

\* ------------------------------------------------------- the base map
\* The two set_base_map of src: the function of code.py and the method of
\* SkyPortalUI, which delegates the download to maplib.get_base_map.
MapImpls == {"code.set_base_map", "displaylib.SkyPortalUI.set_base_map"}

\* What the download of the generated tile does: each step of the try
\* block that can fail, and none.
MapFetches ==
  {"generated", "request raises", "status not 200", "write raises",
   "load raises"}

\* The try block of get_base_map and of code.set_base_map: the tile it
\* leaves in map_img.
get_base_map(fetch) ==
  IF fetch = "generated" THEN "generated_map.bmp" ELSE "default_map.bmp"

\* set_base_map: the exception it raises.  SkyPortalUI.set_base_map calls
\* get_base_map(grid_bounds=grid_bounds), without the request_session that
\* get_base_map requires.
set_base_map_raises(impl, use_default, fetch) ==
  IF impl = "displaylib.SkyPortalUI.set_base_map" /\ ~use_default
  THEN "TypeError"
  ELSE "none"

\* set_base_map: the tile it loads, where it raises nothing.
set_base_map_img(impl, use_default, fetch) ==
  IF use_default THEN "default_map.bmp" ELSE get_base_map(fetch)

MapInit ==
  /\ main_display_group = <<"splash_display">>
  /\ map_result = None

\* The set_base_map() call of the startup, on the bounds that
\* build_bounding_box returned.
SetBaseMap ==
  /\ IsNone(map_result)
  /\ ~IsNone(box)
  /\ Val(box).raises = "none"
  /\ \E impl \in MapImpls, use_default \in BOOLEAN, fetch \in MapFetches :
       LET raises == set_base_map_raises(impl, use_default, fetch)
       IN /\ map_result' =
               Some([impl |-> impl, use_default |-> use_default,
                     fetch |-> fetch, raises |-> raises,
                     map_img |-> IF raises = "none"
                                 THEN Some(set_base_map_img(impl, use_default,
                                                            fetch))
                                 ELSE None])
          /\ main_display_group' =
               IF raises = "none"
               THEN Append(SubSeq(main_display_group, 1,
                                  Len(main_display_group) - 1),
                           "map_group")
               ELSE main_display_group
  /\ UNCHANGED <<handler_vars, loop_vars, ui_vars, built, box>>
  /\ UNCHANGED <<projected, touch_vars, shot_vars, info_vars, normalized>>

\* ------------------------------------------------- the refresh cycle
\* One refresh cycle of the main loop: update(), its exceptions caught,
\* then draw_aircraft(handler.aircraft) when can_draw is true and no redraw
\* when it is false.
RefreshCycle ==
  /\ draw_result # "AttributeError"
  /\ \E fetch \in Fetches(handler) :
       LET list == aircraft_after(handler, skip_ground, aircraft, fetch)
           ui == draw_aircraft([positions |-> aircraft_positions,
                                group |-> aircraft_display_group],
                               list, skip_ground, GEO_ALTITUDE_THRESHOLD_M,
                               default_icon)
       IN /\ aircraft' = list
          /\ api_time' = api_time_after(handler, skip_ground, api_time, fetch)
          /\ last_result' = update_result(handler, fetch)
          /\ last_cause' = cause_of(fetch)
          /\ last_json' = IF update_result(handler, fetch) = "ok"
                          THEN fetch.json ELSE last_json
          /\ last_shape' = shape_of(fetch)
          /\ ever_retained' = (ever_retained \/
                                 (update_result(handler, fetch) = "ok" /\
                                  Len(list) # 0))
          /\ IF Len(list) # 0
             THEN /\ aircraft_positions' = ui.positions
                  /\ aircraft_display_group' = ui.group
                  /\ draw_result' = IF ui.raised = "none" THEN "returned"
                                    ELSE ui.raised
                  /\ drawn' = list
                  /\ stale_dropped' =
                       \E q \in DOMAIN aircraft_positions :
                         \/ q \notin DOMAIN ui.positions
                         \/ ui.positions[q] # aircraft_positions[q]
                  /\ closest' = None
             ELSE UNCHANGED <<aircraft_positions, aircraft_display_group,
                              draw_result, drawn, stale_dropped, closest>>
  /\ UNCHANGED <<handler, skip_ground, default_icon>>
  /\ UNCHANGED <<loop_vars, built, box, device_vars>>

\* ---------------------------------------------------- process_touch
\* The side of the image of the screenshot button, whose top is 40 pixels
\* above the bottom of the display.
ButtonImgSize == 40
ScreenshotButton ==
  [x |-> 0, y |-> DisplayHeight - 40, width |-> ButtonImgSize,
   height |-> ButtonImgSize]

\* ImageButton._contains: range(x, x + img.width + 1) and the same in y.
contains(button, touch_coord) ==
  /\ button.x <= touch_coord[1]
  /\ touch_coord[1] < button.x + button.width + 1
  /\ button.y <= touch_coord[2]
  /\ touch_coord[2] < button.y + button.height + 1

\* ImageButton.check_fire of auxiliary_button_group[True]: the screenshot
\* button has a callback, the status dot has none.
check_fire(with_callback, touch_coord) ==
  with_callback /\ contains(ScreenshotButton, touch_coord)

\* The touches given to process_touch, as (x, y, pressure).
InfoTouches == Readings \cup {<<100, 131, 500>>, <<20, 220, 800>>}

\* process_touch that sets the box from the closest aircraft whether the
\* box is hidden or not.
info_after_always_shows(hidden, showing, returned) ==
  IF ~IsNone(returned)
  THEN [hidden |-> FALSE, aircraft |-> returned]
  ELSE [hidden |-> TRUE, aircraft |-> showing]

\* process_touch below the screenshot button: the box after a touch, from
\* the box before it and what _closest_aircraft returned.
info_after(hidden, showing, returned) ==
  IF hidden
  THEN IF ~IsNone(returned)
       THEN [hidden |-> FALSE, aircraft |-> returned]
       ELSE [hidden |-> TRUE, aircraft |-> showing]
  ELSE [hidden |-> TRUE, aircraft |-> showing]

InfoInitWith(enabled) ==
  /\ enable_screenshot = enabled
  /\ info_hidden = TRUE
  /\ info_aircraft = None
  /\ last_touch = None

\* One process_touch(touch_coord) call: the screenshot button first, its
\* callback take_screenshot included, then the info box.
ProcessTouch ==
  /\ draw_result # "AttributeError"
  /\ \E touch_coord \in InfoTouches :
       LET xy == <<touch_coord[1], touch_coord[2]>>
           did_screenshot == check_fire(enable_screenshot, xy)
           candidates == closest_aircraft(aircraft_positions, xy, 30)
       IN IF did_screenshot
          THEN /\ \E name \in Names, outcome \in SaveOutcomes :
                    LET to_delete == rotate_images(files, n_screenshots)
                        written == IF outcome = "MemoryError" THEN {}
                                   ELSE {name}
                    IN /\ files' = (files \ to_delete) \cup written
                       /\ last_shot' =
                            Some([found |-> files, deleted |-> to_delete,
                                  filename |-> name, outcome |-> outcome])
               /\ last_touch' =
                    Some([touch_coord |-> touch_coord, did_screenshot |-> TRUE,
                          was_hidden |-> info_hidden,
                          was_showing |-> info_aircraft,
                          positions |-> aircraft_positions])
               /\ UNCHANGED <<info_hidden, info_aircraft>>
          ELSE /\ \E returned \in candidates :
                    LET box_after == info_after(info_hidden, info_aircraft,
                                                returned)
                    IN /\ info_hidden' = box_after.hidden
                       /\ info_aircraft' = box_after.aircraft
               /\ last_touch' =
                    Some([touch_coord |-> touch_coord,
                          did_screenshot |-> FALSE,
                          was_hidden |-> info_hidden,
                          was_showing |-> info_aircraft,
                          positions |-> aircraft_positions])
               /\ UNCHANGED <<files, last_shot>>
  /\ UNCHANGED <<enable_screenshot, n_screenshots>>
  /\ UNCHANGED <<handler_vars, loop_vars, ui_vars, built, box>>
  /\ UNCHANGED <<projected, touch_vars, map_vars, normalized>>

\* ------------------------------------------- the proxy and the device
\* One record of the feed, given to the proxy's simplify_aircraft and to
\* the device's from_adsblol.
NormalizeBoth ==
  /\ \E sv \in ADSBInputs :
       normalized' =
         Some([record |-> sv,
               proxy_skipped |-> simplify_skips(sv),
               proxy_raises |-> simplify_raises(sv),
               proxy |-> IF simplify_raises(sv) = "none" /\ ~simplify_skips(sv)
                         THEN Some(simplify_vector(sv)) ELSE None,
               device_raises |-> from_adsblol_raises(sv),
               device |-> IF from_adsblol_raises(sv) = "none"
                          THEN Some(from_adsblol(sv)) ELSE None])
  /\ UNCHANGED <<handler_vars, loop_vars, ui_vars, built, box>>
  /\ UNCHANGED <<projected, touch_vars, shot_vars, map_vars, info_vars>>

DeviceInit ==
  /\ projected = None
  /\ normalized = None
  /\ TouchInitWith("displaylib")
  /\ ShotInitWith(3, {})
  /\ MapInit
  /\ InfoInitWith(FALSE)

\* calculate_pixel_position on two points of one box.
Project ==
  /\ \E bounds \in ProjectBoxes :
       \E a \in PointsInside(bounds), b \in PointsInside(bounds) :
         projected' = Some([bounds |-> bounds, a |-> a, b |-> b,
                            pixel_a |-> calculate_pixel_position(a[1], a[2], bounds),
                            pixel_b |-> calculate_pixel_position(b[1], b[2], bounds)])
  /\ UNCHANGED <<handler_vars, loop_vars, ui_vars, built, box>>
  /\ UNCHANGED <<touch_vars, shot_vars, map_vars, info_vars, normalized>>

\* ------------------------------------------------------ specifications
Init ==
  HandlerInit /\ LoopInit /\ UIInit /\ built = None /\ box = None /\ DeviceInit

\* The API handler object and its callers.
Next == Update
Spec == Init /\ [][Next]_vars

\* The main loop of code.py.
LoopNext == LoopBegin \/ LoopRefresh \/ LoopSleep
LoopSpec == Init /\ [][LoopNext]_vars

\* The UI object: redraws and hit tests, with ui.default_icon as
\* post_connect_init leaves it and as a caller that binds it leaves it.
DisplayInit ==
  /\ HandlerInit
  /\ handler = "networklib.OpenSky"
  /\ LoopInit
  /\ \E icon \in {None, Some(load_default_icon)} : UIInitWith(icon)
  /\ built = None
  /\ box = None
  /\ DeviceInit
DisplayNext == DrawAircraft \/ ClosestAircraft
DisplaySpec == DisplayInit /\ [][DisplayNext]_vars

\* The constructors, each on every record of the inputs.
ConstructInit == Init /\ handler = "networklib.ADSBLol"
ConstructNext == FromOpenSky \/ FromAdsblol \/ SimplifyAircraft
ConstructSpec == ConstructInit /\ [][ConstructNext]_vars

\* The startup: the bounding box of the map, for every centre, width and
\* display of the model.
StartupInit == Init /\ handler = "networklib.OpenSky"
StartupNext == BuildBoundingBox
StartupSpec == StartupInit /\ [][StartupNext]_vars

\* The projection: calculate_pixel_position on every pair of points of
\* each box of the model.
ProjectInit == Init /\ handler = "networklib.OpenSky" /\ skip_ground
ProjectNext == Project
ProjectSpec == ProjectInit /\ [][ProjectNext]_vars

\* The touch handlers: every sequence of MaxPolls polls of each of the
\* three, with every report of the touchscreen at each read.
TouchInit ==
  /\ HandlerInit /\ handler = "networklib.OpenSky" /\ skip_ground
  /\ LoopInit /\ UIInit /\ built = None /\ box = None
  /\ projected = None /\ normalized = None
  /\ \E impl \in TouchImpls : TouchInitWith(impl)
  /\ ShotInitWith(3, {})
  /\ MapInit
  /\ InfoInitWith(FALSE)
TouchNext == TouchPoll
TouchSpec == TouchInit /\ [][TouchNext]_vars

\* The screenshot handler: every n_screenshots of the model over every
\* content of the destination.
ShotInit ==
  /\ HandlerInit /\ handler = "networklib.OpenSky" /\ skip_ground
  /\ LoopInit /\ UIInit /\ built = None /\ box = None
  /\ projected = None /\ normalized = None
  /\ TouchInitWith("displaylib")
  /\ \E n \in ScreenshotCounts, found \in SUBSET Names :
       ShotInitWith(n, found)
  /\ MapInit
  /\ InfoInitWith(FALSE)
ShotNext == TakeScreenshot
ShotSpec == ShotInit /\ [][ShotNext]_vars

\* The startup up to the base map: build_bounding_box, then set_base_map
\* on its bounds.
BaseMapInit == Init /\ handler = "networklib.OpenSky" /\ skip_ground
BaseMapNext == BuildBoundingBox \/ SetBaseMap
BaseMapSpec == BaseMapInit /\ [][BaseMapNext]_vars

\* The redraws at the altitude floor, with skip_ground on and off, on the
\* UI object as post_connect_init leaves it and as a caller that binds
\* ui.default_icon leaves it.
FloorInit ==
  /\ HandlerInit
  /\ handler = "networklib.OpenSky"
  /\ LoopInit
  /\ \E icon \in {None, Some(load_default_icon)} : UIInitWith(icon)
  /\ built = None
  /\ box = None
  /\ DeviceInit
FloorNext == DrawNearFloor
FloorSpec == FloorInit /\ [][FloorNext]_vars

\* The info box: redraws and touches, with and without the screenshot
\* button, on the UI object as post_connect_init leaves it and as a caller
\* that binds ui.default_icon leaves it.
InfoInit ==
  /\ HandlerInit /\ handler = "networklib.OpenSky" /\ skip_ground
  /\ LoopInit
  /\ \E icon \in {None, Some(load_default_icon)} : UIInitWith(icon)
  /\ built = None /\ box = None
  /\ projected = None /\ normalized = None
  /\ TouchInitWith("displaylib")
  /\ ShotInitWith(1, {})
  /\ MapInit
  /\ \E enabled \in BOOLEAN : InfoInitWith(enabled)
InfoNext == DrawForTouch \/ ProcessTouch
InfoSpec == InfoInit /\ [][InfoNext]_vars

\* The refresh cycles of one handler and the UI, on the UI object as
\* post_connect_init leaves it and as a caller that binds ui.default_icon
\* leaves it.
RefreshInit ==
  /\ HandlerInit /\ handler = "networklib.OpenSky" /\ skip_ground
  /\ LoopInit
  /\ \E icon \in {None, Some(load_default_icon)} : UIInitWith(icon)
  /\ built = None /\ box = None
  /\ DeviceInit
RefreshNext == RefreshCycle
RefreshSpec == RefreshInit /\ [][RefreshNext]_vars

\* The redraws of aircraft on each track, on the UI object as
\* post_connect_init leaves it and as a caller that binds ui.default_icon
\* leaves it.
TrackInit ==
  /\ HandlerInit /\ handler = "networklib.OpenSky"
  /\ LoopInit
  /\ \E icon \in {None, Some(load_default_icon)} : UIInitWith(icon)
  /\ built = None /\ box = None
  /\ DeviceInit
TrackNext == DrawOnTracks
TrackSpec == TrackInit /\ [][TrackNext]_vars

\* The proxy and the device on every record of the inputs.
ProxyInit == Init /\ handler = "networklib.ADSBLol" /\ skip_ground
ProxyNext == NormalizeBoth
ProxySpec == ProxyInit /\ [][ProxyNext]_vars

\* ------------------------------------------------ claims on the handlers
UpstreamKinds == {"APITimeoutError", "APIException"}

\* C1: an update() that ends in APITimeoutError or APIException leaves the
\* handler's aircraft list and api_time as they were before the call, so
\* can_draw has the value it had before the call, for every handler class.
C1_FailedUpdateKeepsState ==
  [][last_result' \in UpstreamKinds =>
       /\ aircraft' = aircraft
       /\ api_time' = api_time
       /\ can_draw' = can_draw]_vars

\* A timed-out update() on a handler that holds aircraft of an earlier one.
C1_Witness ==
  /\ last_result = "APITimeoutError"
  /\ can_draw
  /\ ~last_json.null

\* C2: in every state between update() calls the aircraft list and api_time
\* are the list and the converted timestamp parsed from one and the same
\* response, the latest that update() returned on (before any: [] and -1);
\* nothing of an earlier list is kept.
C2_ReplacedTogether ==
  /\ last_result = "ok" => ~last_json.null
  /\ last_json.null => aircraft = <<>> /\ api_time = -1 * Scale
  /\ ~last_json.null =>
       /\ aircraft = parse_states(handler, skip_ground, last_json.records)
       /\ api_time = api_time_converter(handler, last_json.time)

\* An update() has returned on a response of the later server time that
\* holds one aircraft, which is kept.
C2_Witness ==
  /\ last_result = "ok"
  /\ Len(last_json.records) = 1
  /\ Len(aircraft) = 1
  /\ api_time = 130 * Scale

\* C4 (as claimed): when the aircraft array of a response holds a malformed
\* record, update() still returns; with the skip-ground flag off the list
\* holds one state for each of the other records (3 records, 1 malformed: 2).
C4_MalformedRecordSkipped ==
  (handler \in BaseHandlers /\ last_cause = "payload" /\ last_shape[2] = 1) =>
    /\ last_result = "ok"
    /\ ~skip_ground => Len(aircraft) = last_shape[1] - 1

C6_CanDrawIffAircraft ==
  /\ can_draw <=> aircraft # <<>>
  /\ ~ever_retained => ~can_draw

\* An update() has returned, with every aircraft of its response dropped or
\* none in it: the handler still cannot draw.
C6_Witness ==
  /\ last_result = "ok"
  /\ ~ever_retained
  /\ ~can_draw
  /\ api_time # -1 * Scale

\* C9 (as claimed): with the skip-ground flag on, after an update() that
\* returned the list holds no aircraft on the ground and none that is not
\* plottable, for every handler; with the flag off it holds one state for
\* each record of the response.
C9_UniformGroundFilter ==
  last_result = "ok" =>
    IF skip_ground
    THEN \A i \in DOMAIN aircraft :
           ~aircraft[i].on_ground /\ is_plottable(aircraft[i])
    ELSE Len(aircraft) = Len(last_json.records)

\* The constructor of a record's own wire format.
own_constructor(sv) ==
  IF sv.fmt = "array" THEN from_opensky(sv) ELSE from_adsblol(sv)

\* C10 (as claimed): a response whose records are all well formed for the
\* wire format of its source normalizes without error, for every handler,
\* each state built by the constructor of that wire format (with the
\* skip-ground flag off: one state for each record).
C10_OwnConstructor ==
  (last_cause = "payload" /\ last_shape[2] = 0) =>
    /\ last_result = "ok"
    /\ ~skip_ground =>
         aircraft = [i \in DOMAIN last_json.records |->
                       own_constructor(last_json.records[i])]

\* ------------------------------------------------ claims on the main loop
UpstreamCauses == {"timeout", "out_of_retries", "bad_status", "null_payload"}
FailureLines ==
  {"Error retrieving flight data from OpenSky", "Request to OpenSky timed out"}
InLog(line) == \E i \in DOMAIN cycle_log : cycle_log[i] = line

\* C3: a cycle whose fetch times out, runs out of retries, or answers with
\* a bad status or a null payload is caught by the try statement: the loop
\* does not crash, the cycle prints the failure line and skips the redraw.
C3_UpstreamFailureCaught ==
  cycle_cause \in UpstreamCauses =>
    /\ loop_state \in {"Failed", "Idle"}
    /\ \E line \in FailureLines : InLog(line)
    /\ InLog("No aircraft to draw, skipping redraw")
    /\ ~InLog("Updating aircraft locations")

\* A cycle has timed out while icons of an earlier cycle are plotted.
C3_Witness ==
  /\ cycle_cause = "timeout"
  /\ loop_state = "Failed"
  /\ InLog("Request to OpenSky timed out")
  /\ AIRCRAFT_GROUP # <<>>

\* C7 (as claimed): every cycle that starts a fetch ends as Updated or
\* Failed and the loop goes on to the next cycle: no outcome of the fetch
\* or of parsing its response ends the loop.
C7_NoFatalOutcome == loop_state \in {"Idle", "Fetching", "Updated", "Failed"}

\* C8: a cycle whose fetch fails leaves the plotted icons and the text of
\* the time label as the latest successful cycle left them, and no icon is
\* plotted before the first successful cycle.
C8_StaleDataStays ==
  /\ loop_state \in {"Failed", "Crashed"} =>
       AIRCRAFT_GROUP = shown.icons /\ time_label = shown.label
  /\ ~refreshed => AIRCRAFT_GROUP = <<>> /\ time_label = None

\* A failed cycle after a successful one that plotted two icons.
C8_Witness ==
  /\ loop_state = "Failed"
  /\ refreshed
  /\ Len(AIRCRAFT_GROUP) = 2
  /\ time_label = Some(130)

\* ------------------------------------------------- claims on the display
\* C11: the hit test returns None if and only if no pixel position is
\* registered or the smallest distance from the touch point to a registered
\* position is greater than the threshold; otherwise it returns an aircraft
\* registered at the smallest distance, a distance equal to the threshold
\* being a hit.  With one aircraft at (100, 100) and a touch at (110, 100),
\* threshold 30 returns that aircraft and threshold 5 returns None.
C11_HitTest ==
  ~IsNone(closest) =>
    LET c == Val(closest)
        limit == c.threshold_px * c.threshold_px
        all_beyond == \A p \in DOMAIN aircraft_positions :
                        dist_sq(p, c.touch_coord) > limit
    IN /\ IsNone(c.returned) <=>
            (DOMAIN aircraft_positions = {} \/ all_beyond)
       /\ ~IsNone(c.returned) =>
            \E p \in DOMAIN aircraft_positions :
              /\ aircraft_positions[p] = Val(c.returned)
              /\ \A q \in DOMAIN aircraft_positions :
                   dist_sq(p, c.touch_coord) <= dist_sq(q, c.touch_coord)
       /\ (DOMAIN aircraft_positions = {<<100, 100>>}
           /\ c.touch_coord = <<110, 100>>) =>
            /\ c.threshold_px = 30 =>
                 c.returned = Some(aircraft_positions[<<100, 100>>])
            /\ c.threshold_px = 5 => IsNone(c.returned)

\* A touch 30 pixels from the only registered aircraft, threshold 30, has
\* returned that aircraft.
C11_Witness ==
  /\ DOMAIN aircraft_positions = {<<100, 100>>}
  /\ ~IsNone(closest)
  /\ Val(closest).touch_coord = <<130, 100>>
  /\ Val(closest).threshold_px = 30
  /\ Val(closest).returned = Some(aircraft_positions[<<100, 100>>])

\* C12: every redraw clears the hit-test index and rebuilds it: after
\* draw_aircraft(L) has returned, every entry of the index is an aircraft of
\* L with an icon of this redraw at the entry's pixel; no entry of an
\* earlier redraw remains.
C12_IndexRebuilt ==
  draw_result = "returned" =>
    \A p \in DOMAIN aircraft_positions :
      /\ \E i \in DOMAIN drawn :
           /\ drawn[i] = aircraft_positions[p]
           /\ calculate_pixel_position(Val(drawn[i].lat), Val(drawn[i].lon),
                                       grid_bounds) = p
      /\ \E k \in DOMAIN aircraft_display_group :
           <<aircraft_display_group[k].x, aircraft_display_group[k].y>> = p

\* A redraw has returned with entries of its own after it found the entry
\* of an earlier redraw in the index.
C12_Witness ==
  /\ draw_result = "returned"
  /\ stale_dropped
  /\ DOMAIN aircraft_positions # {}

\* C13 (as stated): after draw_aircraft has returned, the index holds one
\* entry for each icon of the aircraft display group.
C13_EveryIconRegistered ==
  draw_result = "returned" =>
    Cardinality(DOMAIN aircraft_positions) = Len(aircraft_display_group)

\* The pixels at which the aircraft display group holds an icon.
IconPixels ==
  {<<aircraft_display_group[k].x, aircraft_display_group[k].y>> :
     k \in DOMAIN aircraft_display_group}

\* C13 (amended): after draw_aircraft has returned, the index holds one
\* entry for each pixel at which the group holds an icon, and a touch at
\* the pixel of an entry returns the aircraft of that entry.
C13_OneEntryPerPixel ==
  draw_result = "returned" =>
    /\ DOMAIN aircraft_positions = IconPixels
    /\ \A p \in DOMAIN aircraft_positions :
         closest_aircraft(aircraft_positions, p, 0) =
           {Some(aircraft_positions[p])}

\* A redraw has returned with two icons at one pixel and one entry for it.
C13_Witness ==
  /\ draw_result = "returned"
  /\ Len(aircraft_display_group) = 2
  /\ Cardinality(DOMAIN aircraft_positions) = 1

\* C14: a redraw skips every aircraft whose pixel lies beyond the screen
\* dimension plus one icon size: no icon of the group and no entry of the
\* index is at x > width + icon size or at y > height + icon size.
C14_OffScreenSkipped ==
  /\ \A k \in DOMAIN aircraft_display_group :
       /\ aircraft_display_group[k].x <= DisplayWidth + TILE_SIZE
       /\ aircraft_display_group[k].y <= DisplayHeight + TILE_SIZE
  /\ \A p \in DOMAIN aircraft_positions :
       /\ p[1] <= DisplayWidth + TILE_SIZE
       /\ p[2] <= DisplayHeight + TILE_SIZE

\* -------------------------------------------- claims on the constructors
\* The latest construction has returned an AircraftState.
Constructed ==
  /\ ~IsNone(built)
  /\ Val(built).by \in {"from_opensky", "from_adsblol"}
  /\ Val(built).raises = "none"

\* C15: for every AircraftState a constructor has built, is_plottable() is
\* true if and only if lat, lon and track are all present.
C15_PlottableIffPositionAndTrack ==
  Constructed =>
    LET ap == Val(Val(built).state)
    IN is_plottable(ap) <=>
         (~IsNone(ap.lat) /\ ~IsNone(ap.lon) /\ ~IsNone(ap.track))

\* from_opensky has built a state with a position and no track, which is
\* not plottable.
C15_Witness ==
  /\ Constructed
  /\ Val(built).by = "from_opensky"
  /\ ~IsNone(Val(Val(built).state).lat)
  /\ ~IsNone(Val(Val(built).state).lon)
  /\ IsNone(Val(Val(built).state).track)
  /\ ~is_plottable(Val(Val(built).state))

\* C16: from_adsblol on a record whose alt_baro is the on-ground sentinel
\* builds on_ground = true and no barometric altitude; on any other record
\* it builds on_ground = false and the barometric altitude alt_baro (feet)
\* times 0.3048.
C16_BaroAltitude ==
  (~IsNone(built) /\ Val(built).by = "from_adsblol"
   /\ Val(built).raises = "none") =>
    LET sv == Val(built).record
        ap == Val(Val(built).state)
    IN IF sv.k.alt_baro = JStr("ground")
       THEN ap.on_ground /\ IsNone(ap.baro_altitude_m)
       ELSE ~ap.on_ground
            /\ ap.baro_altitude_m = Some(MulFt(sv.k.alt_baro.n))

\* C17: the callsign a constructor has built is absent, or a non-empty
\* string with no blank at either end; where the record has no flight (the
\* primary field of the keyed records) it is the trimmed registration.
C17_CallsignTrimmed ==
  (~IsNone(built) /\ Val(built).raises = "none" /\ ~Val(built).skipped) =>
    LET sv == Val(built).record
        callsign == Val(Val(built).state).callsign
    IN /\ \/ IsNone(callsign)
          \/ /\ Val(callsign) # <<>>
             /\ Val(callsign)[1] # " "
             /\ Val(callsign)[Len(Val(callsign))] # " "
       /\ (sv.fmt = "keyed" /\ IsNone(Get(sv, "flight"))
           /\ ~IsNone(Get(sv, "r"))) =>
            callsign = IF Strip(Val(Get(sv, "r"))) = <<>> THEN None
                       ELSE Some(Strip(Val(Get(sv, "r"))))

\* C18: every construction returns (none raises on the category) a state
\* whose category is of the unified enum 0..20: the OpenSky code where it
\* is one, the table's value for a code of the ADSB.lol table, and else 0.
C18_CategoryUnified ==
  (~IsNone(built) /\ ~Val(built).skipped) =>
    /\ Val(built).raises = "none"
    /\ LET sv == Val(built).record
           category == Val(Val(built).state).aircraft_category
       IN /\ category \in 0..20
          /\ sv.fmt = "array" =>
               category = IF Idx(sv, 17) \in 0..20 THEN Idx(sv, 17) ELSE 0
          /\ sv.fmt = "keyed" =>
               category = IF IsNone(Get(sv, "category")) THEN 0
                          ELSE AircraftCategory(Val(Get(sv, "category")))

\* --------------------------------------------- claims on the time stamp
\* C19: after an update() that has returned, api_time is in seconds: an
\* OpenSky handler holds the response's time field as it came, an ADSB.lol
\* handler holds the response's millisecond time divided by 1000.
C19_ApiTimeInSeconds ==
  last_result = "ok" =>
    IF handler \in {"networklib.OpenSky", "opensky.OpenSky"}
    THEN api_time = last_json.time * Scale
    ELSE api_time = last_json.time * (Scale \div 1000)

\* An ADSB.lol handler has taken a response stamped 130500 ms and holds
\* 130.5 s.
C19_Witness ==
  /\ handler \in {"networklib.ADSBLol", "adsblol.AdsbLol"}
  /\ last_result = "ok"
  /\ last_json.time = 130500
  /\ api_time = 1305000

\* ------------------------------------------------- claims on the grid
\* C20: build_bounding_box with a grid width of zero or less fails with
\* InvalidConfiguration, and the box it returns is never of zero area nor
\* inverted: lat_min < lat_max and lon_min < lon_max.
C20_DegenerateWidthRejected ==
  ~IsNone(box) =>
    /\ Val(box).grid_width_mi <= 0 =>
         Val(box).raises = "InvalidConfiguration"
    /\ ~IsNone(Val(box).bounds) =>
         /\ Val(Val(box).bounds)[1] < Val(Val(box).bounds)[2]
         /\ Val(Val(box).bounds)[3] < Val(Val(box).bounds)[4]

\* ------------------------------------------------ claims on the projection
\* C21: for a fixed bounding box with lat_min < lat_max and lon_min < lon_max
\* the pixel projection is monotonic: of two points inside the box, the one
\* with the larger longitude never has the smaller x and the one with the
\* larger latitude never has the larger y, in integer pixels.
C21_ProjectionMonotonic ==
  ~IsNone(projected) =>
    LET p == Val(projected)
    IN /\ p.bounds[1] < p.bounds[2] /\ p.bounds[3] < p.bounds[4]
       /\ p.a[2] <= p.b[2] => p.pixel_a[1] <= p.pixel_b[1]
       /\ p.a[1] <= p.b[1] => p.pixel_a[2] >= p.pixel_b[2]

\* Two points of the configured box, the second north-east of the first
\* and on another pixel column and row.
C21_Witness ==
  /\ ~IsNone(projected)
  /\ Val(projected).bounds = grid_bounds
  /\ Val(projected).a[1] < Val(projected).b[1]
  /\ Val(projected).a[2] < Val(projected).b[2]
  /\ Val(projected).pixel_a[1] < Val(projected).pixel_b[1]
  /\ Val(projected).pixel_a[2] > Val(projected).pixel_b[2]

\* ------------------------------------------------ claims on the touch handler
\* C22: the touch handler emits a touch event only on the change from
\* Released to Pressed: between two polls that return a touch point there
\* is a poll that sampled the screen as not touched, and a poll made while
\* Pressed returns None.
C22_EdgeTriggered ==
  \A j \in DOMAIN polls :
    /\ polls[j].was_pressed => IsNone(polls[j].returned)
    /\ ~IsNone(polls[j].returned) =>
         /\ ~polls[j].was_pressed /\ polls[j].is_pressed
         /\ \A i \in 1..(j - 1) :
              ~IsNone(polls[i].returned) =>
                \E k \in (i + 1)..(j - 1) : ~polls[k].touched

\* A press that gives its event, a poll that finds the finger still down,
\* a release and a second press that gives its event.
C22_Witness ==
  /\ Len(polls) = 4
  /\ ~IsNone(polls[1].returned)
  /\ polls[2].touched /\ polls[2].was_pressed /\ IsNone(polls[2].returned)
  /\ ~polls[3].touched
  /\ ~IsNone(polls[4].returned)

\* C28: a press is never consumed without its event: a poll that takes the
\* handler from Released to Pressed returns a touch coordinate, whatever the
\* touchscreen reports at each of the reads of that poll.
C28_PressGivesEvent ==
  \A j \in DOMAIN polls :
    (~polls[j].was_pressed /\ polls[j].is_pressed) =>
      ~IsNone(polls[j].returned)

C24_BaseMapNeverFails ==
  ~IsNone(map_result) =>
    /\ Val(map_result).raises = "none"
    /\ (Val(map_result).use_default \/ Val(map_result).fetch # "generated")
         => Val(map_result).map_img = Some("default_map.bmp")
    /\ main_display_group = <<"map_group">>

\* ------------------------------------------------ claims on the redraw
\* The aircraft that C25 says are plotted.
ShouldPlot(ap) ==
  /\ is_plottable(ap)
  /\ ~(skip_ground /\ ap.on_ground)
  /\ ~IsNone(ap.geo_altitude_m)
  /\ Val(ap.geo_altitude_m) >= GEO_ALTITUDE_THRESHOLD_M
Unplottable(ap) == ~is_plottable(ap)

\* C25: draw_aircraft plots an aircraft of its list if and only if it is
\* plottable, not (skip_ground and on the ground) and its geometric altitude
\* is present and not below the floor, an altitude equal to the floor
\* included; every other aircraft is skipped and counted, and plotted +
\* missing data + on ground is the length of the list.
C25_PlottedIffPassesFilters ==
  draw_result # "none" =>
    LET plotted == SelectSeq(drawn, ShouldPlot)
        ui == draw_aircraft([positions |-> <<>>, group |-> <<>>], drawn,
                            skip_ground, GEO_ALTITUDE_THRESHOLD_M,
                            default_icon)
    IN /\ draw_result = "returned"
       /\ Len(aircraft_display_group) = Len(plotted)
       /\ \A i \in DOMAIN plotted :
            LET pos == calculate_pixel_position(Val(plotted[i].lat),
                                                Val(plotted[i].lon),
                                                grid_bounds)
            IN /\ aircraft_display_group[i].x = pos[1]
               /\ aircraft_display_group[i].y = pos[2]
               /\ pos \in DOMAIN aircraft_positions
       /\ ui.n_unplottable = Len(SelectSeq(drawn, Unplottable))
       /\ Len(plotted) + ui.n_unplottable + ui.n_ground = Len(drawn)

\* ------------------------------------------------ claims on the info box
\* The pixels of the position cache of the latest touch that lie within 30
\* pixels of it.
C26_Near ==
  {p \in DOMAIN Val(last_touch).positions :
     dist_sq(p, <<Val(last_touch).touch_coord[1],
                  Val(last_touch).touch_coord[2]>>) <= 30 * 30}

\* C26: process_touch toggles the aircraft info box.  While the box is
\* visible a touch that the screenshot button does not consume hides it and
\* leaves the aircraft it shows; while it is hidden a touch makes it
\* visible, set from the closest aircraft, only when an aircraft is within
\* 30 pixels, and leaves it hidden otherwise; a touch that fires the
\* screenshot button leaves the box as it was.
C26_InfoBoxToggles ==
  ~IsNone(last_touch) =>
    LET t == Val(last_touch)
        xy == <<t.touch_coord[1], t.touch_coord[2]>>
    IN /\ t.did_screenshot =>
            info_hidden = t.was_hidden /\ info_aircraft = t.was_showing
       /\ (~t.did_screenshot /\ ~t.was_hidden) =>
            info_hidden /\ info_aircraft = t.was_showing
       /\ (~t.did_screenshot /\ t.was_hidden /\ C26_Near = {}) =>
            info_hidden /\ info_aircraft = t.was_showing
       /\ (~t.did_screenshot /\ t.was_hidden /\ C26_Near # {}) =>
            /\ ~info_hidden
            /\ \E p \in C26_Near :
                 /\ info_aircraft = Some(t.positions[p])
                 /\ \A q \in DOMAIN t.positions :
                      dist_sq(p, xy) <= dist_sq(q, xy)

\* A touch 10 pixels from one aircraft and 10 from another, on a UI with
\* the screenshot button that has taken a screenshot, while the box is
\* hidden after it has shown an aircraft: the box comes up on the second.
C26_Witness ==
  /\ ~IsNone(last_touch)
  /\ Val(last_touch).touch_coord = <<110, 100, 500>>
  /\ ~Val(last_touch).did_screenshot
  /\ Val(last_touch).was_hidden
  /\ ~IsNone(Val(last_touch).was_showing)
  /\ Cardinality(C26_Near) = 2
  /\ ~info_hidden
  /\ ~IsNone(info_aircraft)
  /\ Val(info_aircraft).icao = "d00120"
  /\ enable_screenshot
  /\ ~IsNone(last_shot)

\* ------------------------------------------- claims on the refresh cycle
\* C27 as stated: after any sequence of refresh cycles that redraw only
\* when can_draw is true, every aircraft the hit test can return is in the
\* handler's current aircraft list.
C27_IndexWithinCurrent ==
  \A p \in DOMAIN aircraft_positions :
    \E i \in DOMAIN aircraft : aircraft[i] = aircraft_positions[p]

\* C27: after any sequence of refresh cycles that redraw only when can_draw
\* is true, every aircraft the hit test can return is in the list of the
\* latest redraw, which is the handler's current list whenever can_draw is
\* true; after a refresh that leaves the handler without aircraft the
\* index keeps the aircraft of the redraw before.
C27_IndexWithinLastDrawn ==
  /\ \A p \in DOMAIN aircraft_positions :
       \E i \in DOMAIN drawn : drawn[i] = aircraft_positions[p]
  /\ can_draw =>
       /\ drawn = aircraft
       /\ \A p \in DOMAIN aircraft_positions :
            \E i \in DOMAIN aircraft : aircraft[i] = aircraft_positions[p]
  /\ (~can_draw /\ draw_result = "returned") =>
       (DOMAIN aircraft_positions # {} <=>
          \E i \in DOMAIN drawn : ShouldPlot(drawn[i]))

\* A successful refresh that retains no aircraft, after a redraw that
\* plotted one: the index still holds it.
C27_Witness ==
  /\ last_result = "ok"
  /\ ~can_draw
  /\ DOMAIN aircraft_positions # {}
  /\ drawn # <<>>

\* C29: for every plotted aircraft with a track from 0 to 360 degrees
\* inclusive, the rotation tile index floor(track / rotation_resolution_deg)
\* is a tile of a sheet of 360 / rotation_resolution_deg rotations: it lies
\* in 0 .. (360 / rotation_resolution_deg) - 1.
C29_TileIndexOnSheet ==
  \A i \in DOMAIN aircraft_display_group :
    aircraft_display_group[i].default_tile
      \in 0..((360 \div RotationResolutionDeg) - 1)

\* ------------------------------------- claims on the proxy and the device
\* C30: for every raw ADSB.lol record of an airborne aircraft, the proxy's
\* simplify_aircraft and the device's from_adsblol give equal icao,
\* callsign, lat, lon, track, velocity, on_ground, barometric altitude,
\* geometric altitude, vertical rate and category.
C30_ProxyEqualsDevice ==
  (~IsNone(normalized) /\ ~Val(normalized).proxy_skipped) =>
    /\ Val(normalized).proxy_raises = "none"
    /\ Val(normalized).device_raises = "none"
    /\ LET proxy == Val(Val(normalized).proxy)
           device == Val(Val(normalized).device)
       IN /\ proxy.icao = device.icao
          /\ proxy.callsign = device.callsign
          /\ proxy.lat = device.lat
          /\ proxy.lon = device.lon
          /\ proxy.track = device.track
          /\ proxy.velocity_mps = device.velocity_mps
          /\ proxy.on_ground = device.on_ground
          /\ proxy.baro_altitude_m = device.baro_altitude_m
          /\ proxy.geo_altitude_m = device.geo_altitude_m
          /\ proxy.vertical_rate_mps = device.vertical_rate_mps
          /\ proxy.aircraft_category = device.aircraft_category

====
